---- MODULE Spec2Model ----
(***************************************************************************)
(* Verification model of the chainpulse data-to-entity pipeline.           *)
(*                                                                         *)
(*   - the per-chain fair TransactionQueue                                 *)
(*     (src/src/processing/TransactionQueue.ts, second class of the file)  *)
(*   - the fixed-capacity ParticlePool (src/unnamed/part_009)              *)
(*                                                                         *)
(* A transaction is the record [chainId, isWhale, hash]; hash is the       *)
(* identity of the transaction (a per-chain serial number in the model).   *)
(***************************************************************************)
EXTENDS Integers, Sequences, FiniteSets, TLC

\* ------------------------------------------------------------------------
\* Generic helpers
\* ------------------------------------------------------------------------
Max(a, b) == IF a >= b THEN a ELSE b
Min(a, b) == IF a <= b THEN a ELSE b

\* Number of elements of s that belong to chain c.
CountChain(s, c) == Cardinality({i \in DOMAIN s : s[i].chainId = c})

\* Array.prototype.slice(start) with one argument: a negative start counts
\* from the end, and -0 is 0, so slice(-0) is the whole array.
Slice(s, start) ==
    LET from == IF start < 0 THEN Max(Len(s) + start, 0) ELSE Min(start, Len(s))
    IN  SubSeq(s, from + 1, Len(s))

\* ------------------------------------------------------------------------
\* TransactionQueue: constants and bounds
\* ------------------------------------------------------------------------
MAX_PER_CHAIN == 60
TRIM_TARGET == 30

ChainIds == {"ethereum", "polygon", "arbitrum"}

\* Transactions pushed per chain over a run of small batches.
MaxPushed == 4
\* Transactions pushed per chain over a run of bursts.
MaxBurstPushed == 93
\* Calls of push, drain and clear over a run.
MaxCalls == 5

VARIABLES
    chains,         \* Map<string, ProcessedTransaction[]>: chainId -> sub-queue
    chainOrder,     \* string[]: chain ids in order of first push
    roundRobinIdx,  \* rotation pointer into chainOrder
    lastCall,       \* the call that produced this state, with its argument
    result,         \* return value of the last drain
    nextHash,       \* chainId -> serial number of the next transaction
    calls,          \* number of queue calls made so far
    lastDrained,    \* chainId -> serial number of the last item drained from it
    since,          \* <<a, b>> -> items drained from b since the last item
                    \* drained from a, while b stayed non-empty (-1: b was
                    \* empty at some point of that interval, or no interval)
    stayed          \* a -> a's sub-queue was non-empty ever since the last
                    \* item drained from a

queueVars == <<chains, chainOrder, roundRobinIdx, lastCall, result, nextHash,
               calls, lastDrained, since, stayed>>

VARIABLES
    particles,      \* ParticleData[]: slot index 0..Capacity-1 -> particle
    activeCount,    \* ParticlePool.activeCount
    poolCall,       \* the pool call that produced this state, its argument
                    \* and return value
    poolCalls,      \* number of pool calls made so far
    nextSpawn       \* serial number (hash) of the next spawned transaction

poolVars == <<particles, activeCount, poolCall, poolCalls, nextSpawn>>

VARIABLES
    detector,           \* AdaptiveWhaleDetectorImpl.chains: key -> ChainState
    whaleThresholdUsd,  \* useStore state: the user's USD whale floor
    now,                \* Date.now() at the last handler call, in ms
    decisions,          \* what mapTransaction decided for each transaction
                        \* of the last batch, in batch order
    samples,            \* key -> every value recorded for it, oldest first
    lastFire,           \* key -> time of the last isWhale call on it that
                        \* returned true (-1: none yet)
    activity,           \* ActivityMonitorImpl: chains, global level, last call
    detCalls,           \* number of handler and setter calls made so far
    pulses              \* blockPulseEvents: the queue of each registered
                        \* consumer and the staging array, with every event
                        \* queued so far, what each consumer was returned
                        \* so far, and the last call

batchVars == <<detector, whaleThresholdUsd, now, decisions, samples, lastFire,
               activity, detCalls>>

detVars == <<batchVars, pulses>>

VARIABLES
    cm,         \* the ConnectionManager of one chain: its fields, with the
                \* listeners registered on its provider
    handshake,  \* connect() is suspended at `await getNetwork()`
    fetches,    \* block handlers suspended at `await Promise.all(...)`
    sim,        \* the SimulationProvider of the chain: timeoutId is set
    hook,       \* useChainData: the mode, whether the providers were set
                \* up, and the store's chainConnected flag
    connCall,   \* the handler or call that produced this state
    emitted,    \* the callbacks that handler invoked, in order
    failures,   \* handleDisconnect calls that got past the destroyed
                \* check since the last successful handshake
    decoded,    \* the block and logs the last settled fetch returned
                \* and what the block handler made of them
    feed        \* the chains under the useChainData of src/src/hooks and
                \* the ConnectionManager of src/src/data: for each chain
                \* the manager's fields and pending calls, the number of
                \* running SimulationProviders and the store's
                \* chainConnected flag; the last call and the providers
                \* whose transaction callback it invoked, in order

connVars == <<cm, handshake, fetches, sim, hook, connCall, emitted, failures,
              decoded, feed>>

VARIABLES
    frame       \* ParticleField: whether it is mounted, the device class,
                \* the index map and the buffers of the last frame, and
                \* what the last frame was given and did

frameVars == <<frame>>

\* The pool with the component that owns it.
fieldVars == <<poolVars, frameVars>>

\* Everything a queue call, respectively a pool call, leaves alone.
notQueueVars == <<fieldVars, detVars, connVars>>
notPoolVars == <<queueVars, detVars, connVars, frameVars>>

vars == <<queueVars, poolVars, detVars, connVars, frameVars>>

\* ------------------------------------------------------------------------
\* TransactionQueue.push
\* ------------------------------------------------------------------------
IsWhaleTx(tx) == tx.isWhale
IsNormalTx(tx) == ~tx.isWhale

\* Variant of the trim: keeps the newest TRIM_TARGET items whatever their flag.
TrimQueueNewest(q) ==
    IF Len(q) > MAX_PER_CHAIN THEN Slice(q, 0 - TRIM_TARGET) ELSE q

\* The overflow trim of one sub-queue (lines 61-70).
TrimQueue(q) ==
    IF Len(q) > MAX_PER_CHAIN
    THEN LET whales == SelectSeq(q, IsWhaleTx)
             normal == SelectSeq(q, IsNormalTx)
             normalKeep == Max(TRIM_TARGET - Len(whales), 0)
         IN  whales \o Slice(normal, 0 - normalKeep)
    ELSE q

\* Keys of the `grouped` map in insertion order (lines 44-49): the keys of
\* the first half of the batch, then the new ones of the second half.
RECURSIVE GroupOrder(_, _)
GroupOrder(txs, seen) ==
    IF txs = <<>> THEN <<>>
    ELSE IF Len(txs) = 1
    THEN IF Head(txs).chainId \in seen THEN <<>>
         ELSE <<Head(txs).chainId>>
    ELSE LET mid == Len(txs) \div 2
             left == GroupOrder(SubSeq(txs, 1, mid), seen)
         IN  IF Len(left) >= 0
             THEN left \o GroupOrder(SubSeq(txs, mid + 1, Len(txs)),
                                     seen \cup {left[i] : i \in DOMAIN left})
             ELSE left

GroupBatch(txs, c) == SelectSeq(txs, LAMBDA tx : tx.chainId = c)

\* The loop over the groups (lines 51-71); st = [chains, chainOrder].
RECURSIVE PushGroups(_, _, _)
PushGroups(st, order, txs) ==
    IF order = <<>> THEN st
    ELSE LET chainId == Head(order)
             known == chainId \in DOMAIN st.chains
             q == (IF known THEN st.chains[chainId] ELSE <<>>)
                    \o GroupBatch(txs, chainId)
             st1 == [chains |-> [c \in DOMAIN st.chains \cup {chainId} |->
                                    IF c = chainId THEN TrimQueue(q)
                                    ELSE st.chains[c]],
                     chainOrder |-> IF known THEN st.chainOrder
                                    ELSE Append(st.chainOrder, chainId)]
         IN  PushGroups(st1, Tail(order), txs)

PushResult(txs) ==
    IF Len(txs) = 0 THEN [chains |-> chains, chainOrder |-> chainOrder]
    ELSE PushGroups([chains |-> chains, chainOrder |-> chainOrder],
                    GroupOrder(txs, {}), txs)

\* A batch is given by its shape, a sequence of [chainId, isWhale]; the
\* serial numbers are taken from nextHash in batch order.
Stamp(shape) ==
    [i \in DOMAIN shape |->
        [chainId |-> shape[i].chainId,
         isWhale |-> shape[i].isWhale,
         hash |-> nextHash[shape[i].chainId] +
                  Cardinality({j \in 1..(i - 1) : shape[j].chainId = shape[i].chainId})]]

\* The sub-queue of chainId as push sees it right after the append (line 58).
Appended(chainId, txs) ==
    (IF chainId \in DOMAIN chains THEN chains[chainId] ELSE <<>>)
        \o GroupBatch(txs, chainId)

\* Chains whose sub-queue exceeds the cap in this push (line 61).
Overflowing(txs) ==
    {c \in ChainIds : GroupBatch(txs, c) # <<>> /\
                      Len(Appended(c, txs)) > MAX_PER_CHAIN}

Push(shape) ==
    LET txs == Stamp(shape)
        st == PushResult(txs)
    IN  /\ calls < MaxCalls
        /\ chains' = st.chains
        /\ chainOrder' = st.chainOrder
        /\ nextHash' = [c \in ChainIds |->
                          nextHash[c] + CountChain(shape, c)]
        /\ lastCall' = [op |-> "push", txs |-> txs, count |-> 0,
                        trimmed |-> Overflowing(txs)]
        /\ result' = <<>>
        /\ calls' = calls + 1
        /\ UNCHANGED <<roundRobinIdx, lastDrained, since, stayed>>
        /\ UNCHANGED notQueueVars

\* ------------------------------------------------------------------------
\* TransactionQueue.size
\* ------------------------------------------------------------------------
RECURSIVE SumLen(_, _)
SumLen(f, S) ==
    IF S = {} THEN 0
    ELSE LET c == CHOOSE x \in S : TRUE IN Len(f[c]) + SumLen(f, S \ {c})

SizeOf(f) == SumLen(f, DOMAIN f)
size == SizeOf(chains)

\* ------------------------------------------------------------------------
\* TransactionQueue.drain
\* ------------------------------------------------------------------------
\* Variant of the loop: the pointer stays on a chain that yielded an item.
RECURSIVE DrainLoopSticky(_)
DrainLoopSticky(st) ==
    IF ~(st.remaining > 0 /\ st.emptyPasses < Len(chainOrder)) THEN st
    ELSE LET chainId == chainOrder[(st.roundRobinIdx % Len(chainOrder)) + 1]
             q == IF chainId \in DOMAIN st.chains THEN st.chains[chainId] ELSE <<>>
             next == (st.roundRobinIdx + 1) % Len(chainOrder)
         IN  IF Len(q) > 0
             THEN DrainLoopSticky([chains |-> [st.chains EXCEPT ![chainId] = Tail(q)],
                                   roundRobinIdx |-> st.roundRobinIdx,
                                   remaining |-> st.remaining - 1,
                                   emptyPasses |-> 0,
                                   result |-> Append(st.result, Head(q))])
             ELSE DrainLoopSticky([st EXCEPT !.roundRobinIdx = next,
                                             !.emptyPasses = st.emptyPasses + 1])

\* Variant of the loop: gives up one empty sub-queue too early.
RECURSIVE DrainLoopShort(_)
DrainLoopShort(st) ==
    IF ~(st.remaining > 0 /\ st.emptyPasses < Len(chainOrder) - 1) THEN st
    ELSE LET chainId == chainOrder[(st.roundRobinIdx % Len(chainOrder)) + 1]
             q == IF chainId \in DOMAIN st.chains THEN st.chains[chainId] ELSE <<>>
             next == (st.roundRobinIdx + 1) % Len(chainOrder)
         IN  IF Len(q) > 0
             THEN DrainLoopShort([chains |-> [st.chains EXCEPT ![chainId] = Tail(q)],
                                  roundRobinIdx |-> next,
                                  remaining |-> st.remaining - 1,
                                  emptyPasses |-> 0,
                                  result |-> Append(st.result, Head(q))])
             ELSE DrainLoopShort([st EXCEPT !.roundRobinIdx = next,
                                            !.emptyPasses = st.emptyPasses + 1])

\* The while loop (lines 91-104);
\* st = [chains, roundRobinIdx, remaining, emptyPasses, result].
RECURSIVE DrainLoop(_)
DrainLoop(st0) ==
    \* the arguments are bound to their values, once per pass
    CHOOSE r \in {
        IF ~(st.remaining > 0 /\ st.emptyPasses < Len(chainOrder)) THEN st
        ELSE LET chainId == chainOrder[(st.roundRobinIdx % Len(chainOrder)) + 1]
                 q == IF chainId \in DOMAIN st.chains THEN st.chains[chainId] ELSE <<>>
                 next == (st.roundRobinIdx + 1) % Len(chainOrder)
             IN  IF Len(q) > 0
                 THEN DrainLoop([chains |-> [st.chains EXCEPT ![chainId] = Tail(q)],
                                 roundRobinIdx |-> next,
                                 remaining |-> st.remaining - 1,
                                 emptyPasses |-> 0,
                                 result |-> Append(st.result, Head(q))])
                 ELSE DrainLoop([st EXCEPT !.roundRobinIdx = next,
                                           !.emptyPasses = st.emptyPasses + 1])
        : st \in {st0}} : TRUE

DrainResult(count) ==
    LET st0 == [chains |-> chains, roundRobinIdx |-> roundRobinIdx,
                remaining |-> count, emptyPasses |-> 0, result |-> <<>>]
    IN  IF Len(chainOrder) = 0 THEN st0 ELSE DrainLoop(st0)

\* Observation of the round-robin order over the items a drain returns, one
\* item at a time; h = [since, stayed, len, exact, fair] where len is the
\* length of every sub-queue at that point of the loop, exact records
\* "exactly one item of every chain that stayed non-empty" at every item,
\* and fair records "at least one, and exactly one if the chain of the item
\* stayed non-empty itself".
Pairs == {p \in ChainIds \X ChainIds : p[1] # p[2]}

RECURSIVE Observe(_, _)
Observe(h0, items0) ==
    \* the arguments are bound to their values, once per pass
    CHOOSE r \in {
        IF items = <<>> THEN h
        ELSE LET a == Head(items).chainId
                 len1 == [h.len EXCEPT ![a] = h.len[a] - 1]
                 watched == {b \in ChainIds \ {a} : h.since[<<a, b>>] >= 0}
                 h1 == [since |-> [p \in Pairs |->
                                     IF p[1] = a
                                     THEN (IF len1[p[2]] > 0 THEN 0 ELSE -1)
                                     ELSE IF p[2] = a
                                     THEN (IF h.since[p] >= 0 /\ len1[a] > 0
                                           THEN Min(h.since[p] + 1, 2) ELSE -1)
                                     ELSE h.since[p]],
                        stayed |-> [h.stayed EXCEPT ![a] = len1[a] > 0],
                        len |-> len1,
                        exact |-> h.exact /\ \A b \in watched : h.since[<<a, b>>] = 1,
                        fair |-> h.fair /\ \A b \in watched :
                                    /\ h.since[<<a, b>>] >= 1
                                    /\ h.stayed[a] => h.since[<<a, b>>] = 1]
             IN  Observe(h1, Tail(items))
        : h \in {h0}, items \in {items0}} : TRUE

Observed(items) ==
    Observe([since |-> since, stayed |-> stayed,
             len |-> [c \in ChainIds |->
                        IF c \in DOMAIN chains THEN Len(chains[c]) ELSE 0],
             exact |-> TRUE, fair |-> TRUE], items)

\* Serial number of the last item of chain c in items (or d if none).
RECURSIVE LastOf(_, _, _)
LastOf(items0, c, d0) ==
    \* the arguments are bound to their values, once per pass
    CHOOSE r \in {
        IF items = <<>> THEN d
        ELSE LastOf(Tail(items), c, IF Head(items).chainId = c THEN Head(items).hash ELSE d)
        : items \in {items0}, d \in {d0}} : TRUE

\* What drain(count) leaves of the queue, st being DrainResult(count).
Drained(count, st) ==
    LET h == Observed(st.result)
    IN  /\ chains' = st.chains
        /\ roundRobinIdx' = st.roundRobinIdx
        /\ result' = st.result
        /\ lastCall' = [op |-> "drain", txs |-> <<>>, count |-> count, trimmed |-> {}]
        /\ lastDrained' = [c \in ChainIds |-> LastOf(st.result, c, lastDrained[c])]
        /\ since' = h.since
        /\ stayed' = h.stayed
        /\ UNCHANGED <<chainOrder, nextHash>>

Drain(count) ==
    /\ calls < MaxCalls
    /\ \E st \in {DrainResult(count)} : Drained(count, st)
    /\ calls' = calls + 1
    /\ UNCHANGED notQueueVars

\* ------------------------------------------------------------------------
\* TransactionQueue.clear
\* ------------------------------------------------------------------------
Clear ==
    /\ calls < MaxCalls
    /\ chains' = <<>>
    /\ chainOrder' = <<>>
    /\ roundRobinIdx' = 0
    /\ result' = <<>>
    /\ lastCall' = [op |-> "clear", txs |-> <<>>, count |-> 0, trimmed |-> {}]
    /\ calls' = calls + 1
    /\ lastDrained' = [c \in ChainIds |-> 0]
    /\ since' = [p \in Pairs |-> -1]
    /\ stayed' = [c \in ChainIds |-> FALSE]
    /\ UNCHANGED nextHash
    /\ UNCHANGED notQueueVars

\* ------------------------------------------------------------------------
\* Inputs and specifications of the queue
\* ------------------------------------------------------------------------
Burst(c, w, k) == [i \in 1..k |-> [chainId |-> c, isWhale |-> w]]

\* The batch keeps every chain within its serial numbers.
Fits(shape, limit) ==
    \A c \in ChainIds :
        nextHash[c] + CountChain(shape, c) <= limit + 1

QueueInit ==
    /\ chains = <<>>
    /\ chainOrder = <<>>
    /\ roundRobinIdx = 0
    /\ lastCall = [op |-> "new", txs |-> <<>>, count |-> 0, trimmed |-> {}]
    /\ result = <<>>
    /\ nextHash = [c \in ChainIds |-> 1]
    /\ calls = 0
    /\ lastDrained = [c \in ChainIds |-> 0]
    /\ since = [p \in Pairs |-> -1]
    /\ stayed = [c \in ChainIds |-> FALSE]

\* Small batches over all chains: every batch of one or two transactions.
SmallShapes ==
    {<<[chainId |-> c, isWhale |-> FALSE]>> : c \in ChainIds} \cup
    {<<[chainId |-> c, isWhale |-> FALSE], [chainId |-> d, isWhale |-> FALSE]>> :
        c \in ChainIds, d \in ChainIds}
DrainCounts == {0, 1, 2, 3, 4, 6}

QueueNext ==
    \/ \E shape \in SmallShapes : Fits(shape, MaxPushed) /\ Push(shape)
    \/ \E count \in DrainCounts : Drain(count)
    \/ Clear

\* Bursts on one chain that overflow its sub-queue, with a mixed batch.
BurstSizes == {1, 29, 31}
BurstShapes ==
    {Burst("ethereum", w, k) : w \in BOOLEAN, k \in BurstSizes} \cup
    {<<[chainId |-> "polygon", isWhale |-> FALSE],
       [chainId |-> "ethereum", isWhale |-> TRUE],
       [chainId |-> "polygon", isWhale |-> TRUE],
       [chainId |-> "ethereum", isWhale |-> FALSE]>>}
BurstDrainCounts == {1, 2}

BurstNext ==
    \/ \E shape \in BurstShapes : Fits(shape, MaxBurstPushed) /\ Push(shape)
    \/ \E count \in BurstDrainCounts : Drain(count)
    \/ Clear


\* ------------------------------------------------------------------------
\* ParticlePool: units, configuration and bounds
\* ------------------------------------------------------------------------
\* Times are in milliseconds. Sizes, opacities, energies and envelopes are
\* fixed-point numbers with Scale units to 1.0.
Scale == 10000
Mul(a, b) == (a * b) \div Scale
Sq(a) == Mul(a, a)
Cube(a) == Mul(Mul(a, a), a)

\* Math.exp(-y) for y >= 0 (y and the result in Scale units): e^-1 per whole
\* unit of y, and the Taylor polynomial of degree 8 in Horner form below 1.
LN2 == 6931
EXP_MINUS_1 == 3679
ExpTaylor(y) ==
    LET t8 == Scale - y \div 8
        t7 == Scale - Mul(y, t8) \div 7
        t6 == Scale - Mul(y, t7) \div 6
        t5 == Scale - Mul(y, t6) \div 5
        t4 == Scale - Mul(y, t5) \div 4
        t3 == Scale - Mul(y, t4) \div 3
        t2 == Scale - Mul(y, t3) \div 2
    IN  Scale - Mul(y, t2)
\* Variant of the decay factor: growth at the same rate (first order).
ExpGrowth(y) == Scale + y
RECURSIVE ExpNeg(_)
ExpNeg(y) == IF y > Scale THEN Mul(EXP_MINUS_1, ExpNeg(y - Scale)) ELSE ExpTaylor(y)

\* ln(n / d) for integers n >= d > 0, in Scale units: n / d = 2^k * m with
\* m in [1, 2), ln m = 2 atanh z for z = (m - 1) / (m + 1).
RECURSIVE Doubled(_, _, _)
Doubled(n, d, k) == IF 2 * d > n THEN [d |-> d, k |-> k] ELSE Doubled(n, 2 * d, k + 1)
RECURSIVE Halved(_, _)
Halved(n, d) == IF n < 131072 THEN [n |-> n, d |-> d] ELSE Halved(n \div 2, d \div 2)
LnRatio(n, d) ==
    LET r == Doubled(n, d, 0)
        h == Halved(n, r.d)
        z == ((h.n - h.d) * Scale) \div (h.n + h.d)
        z2 == Sq(z)
        t4 == Scale \div 7 + Mul(z2, Scale \div 9)
        t3 == Scale \div 5 + Mul(z2, t4)
        t2 == Scale \div 3 + Mul(z2, t3)
        t1 == Scale + Mul(z2, t2)
    IN  r.k * LN2 + 2 * Mul(z, t1)

\* The integer square root, by Newton's iteration from above.
RECURSIVE SqrtFrom(_, _)
SqrtFrom(n0, r0) ==
    CHOOSE s \in {IF next >= r THEN r ELSE SqrtFrom(n, next) :
                     n \in {n0}, r \in {r0},
                     next \in {(r0 + n0 \div r0) \div 2}} : TRUE
Isqrt(n) == IF n <= 0 THEN 0 ELSE SqrtFrom(n, n)

\* Math.pow(x, 0.5) and Math.pow(x, 0.4) for x in [0, 1], in Scale units.
PowHalf(x) == Isqrt(x * Scale)
PowTwoFifths(x) == IF x = 0 THEN 0 ELSE ExpNeg((4 * LnRatio(Scale, x)) \div 10)

\* LIFECYCLE (lifecycleConfig.ts)
spawnDuration == 400
spawnEaseExponent == 3
initialEnergy == 10000
energyHalfLife == 1800
opacityFadeStart == 5500
sizeShrinkExponent == 2
sizeFadeStart == 6000
minOpacity == 80
minEnergy == 100
minSize == 100
velocityDampingRate == 500
trailSampleInterval == 60
\* WHALE_CONFIG (whaleConfig.ts, the later declaration of the file)
glowRiseTime == 2000
glowFallTime == 3000
spawnEaseDuration == 1500
attractionRadius == 60000
attractionStrength == 8000
swirlFactor == 4000
maxSimultaneousWhales == 6
\* TRAIL_LENGTH (part_009 line 4)
TRAIL_LENGTH == 8

\* Number of slots of the pool (600 or 300 in the application).
Capacity == 3
\* Calls of spawn, update and clear over a run.
MaxPoolCalls == 6

Slots == 0..(Capacity - 1)

\* The indices of a trail ring buffer.
Ring == 0..(TRAIL_LENGTH - 1)

\* createEmpty (lines 96-122). Positions are in Scale units, velocities in
\* Scale units per second, the two multipliers in thousandths. Four fields
\* are history, kept since the spawn of the entity: path, the positions it
\* has been at; updates, the update calls whose age check it passed; minDt,
\* the smallest dt of these calls (0 before the first); samples, the trail
\* samples it has taken.
EmptyParticle ==
    [active |-> FALSE, size |-> 0, targetSize |-> 0, opacity |-> 0, energy |-> 0,
     age |-> 0, maxAge |-> 1, isWhale |-> FALSE, energyHalfLifeMult |-> 1000,
     whaleGlowIntensity |-> 0, hash |-> 0, chainId |-> "",
     x |-> 0, y |-> 0, z |-> 0, vx |-> 0, vy |-> 0, vz |-> 0,
     dampingMult |-> 1000,
     trailX |-> [t \in Ring |-> 0], trailY |-> [t \in Ring |-> 0],
     trailZ |-> [t \in Ring |-> 0],
     trailHead |-> 0, trailFill |-> 0, trailTimer |-> 0, path |-> {},
     updates |-> 0, minDt |-> 0, samples |-> 0]

\* ------------------------------------------------------------------------
\* ParticlePool.spawn
\* ------------------------------------------------------------------------
\* Variant of the first-fit scan: the last inactive slot instead of the first.
LastInactive(ps) ==
    IF \E i \in Slots : ~ps[i].active
    THEN CHOOSE i \in Slots : ~ps[i].active /\ \A j \in Slots : ~ps[j].active => j <= i
    ELSE -1

\* First-fit scan for an inactive slot (lines 127-132); -1 if there is none.
FirstInactive(ps) ==
    IF \E i \in Slots : ~ps[i].active
    THEN CHOOSE i \in Slots : ~ps[i].active /\ \A j \in Slots : ~ps[j].active => i <= j
    ELSE -1

\* ratio > maxRatio for ratio = age / maxAge and maxRatio = r[1] / r[2],
\* both denominators positive.
RatioAbove(age, maxAge, r) == age * r[2] > r[1] * maxAge

\* Variant of the eviction scan: a later slot wins a tie of ratios.
RECURSIVE EvictScanLast(_, _, _, _, _)
EvictScanLast(ps, configIsWhale, i, maxRatio, idx) ==
    IF i >= Capacity THEN idx
    ELSE IF ps[i].isWhale /\ ~configIsWhale
         THEN EvictScanLast(ps, configIsWhale, i + 1, maxRatio, idx)
         ELSE IF ~RatioAbove(maxRatio[1], maxRatio[2], <<ps[i].age, ps[i].maxAge>>)
              THEN EvictScanLast(ps, configIsWhale, i + 1, <<ps[i].age, ps[i].maxAge>>, i)
              ELSE EvictScanLast(ps, configIsWhale, i + 1, maxRatio, idx)

\* The eviction scan (lines 135-144) from slot i on; maxRatio is a fraction.
RECURSIVE EvictScan(_, _, _, _, _)
EvictScan(ps, configIsWhale, i, maxRatio, idx) ==
    IF i >= Capacity THEN idx
    ELSE IF ps[i].isWhale /\ ~configIsWhale
         THEN EvictScan(ps, configIsWhale, i + 1, maxRatio, idx)
         ELSE IF RatioAbove(ps[i].age, ps[i].maxAge, maxRatio)
              THEN EvictScan(ps, configIsWhale, i + 1, <<ps[i].age, ps[i].maxAge>>, i)
              ELSE EvictScan(ps, configIsWhale, i + 1, maxRatio, idx)

\* The slot spawn writes to (lines 125-146).
SpawnIndex(ps, config) ==
    LET free == FirstInactive(ps)
    IN  IF free # -1 THEN free
        ELSE LET idx == EvictScan(ps, config.isWhale, 0, <<-1, 1>>, -1)
             IN  IF idx = -1 THEN 0 ELSE idx

\* Variant of the trail reset: the ring buffer and its head, fill and
\* timer are left as the slot has them.
KeepTrail(p, config) == p

\* The trail of a spawned particle (lines 173-180): seeded with the spawn
\* position, and empty.
ResetTrail(p, config) ==
    [p EXCEPT !.trailX = [t \in Ring |-> config.x],
              !.trailY = [t \in Ring |-> config.y],
              !.trailZ = [t \in Ring |-> config.z],
              !.trailHead = 0, !.trailFill = 0, !.trailTimer = 0]

\* What spawn makes of the slot's record p (lines 148-180).
Spawned(p0, config0) ==
    CHOOSE r \in {
    ResetTrail(
        [p EXCEPT !.active = TRUE,
                  !.x = config.x, !.y = config.y, !.z = config.z,
                  !.vx = config.vx, !.vy = config.vy, !.vz = config.vz,
                  !.targetSize = config.size, !.size = 0, !.opacity = 0,
                  !.energy = initialEnergy, !.age = 0,
                  !.maxAge = config.maxAge, !.isWhale = config.isWhale,
                  !.chainId = config.chainId,
                  !.dampingMult = config.dampingMult,
                  !.energyHalfLifeMult = config.energyHalfLifeMult,
                  !.whaleGlowIntensity = 0, !.hash = config.hash,
                  !.path = {<<config.x, config.y, config.z>>},
                  !.updates = 0, !.minDt = 0, !.samples = 0],
        config)
    : p \in {p0}, config \in {config0}} : TRUE

\* spawn(cfg), as one of at most maxCalls calls of a run.
SpawnWithin(maxCalls, cfg) ==
    LET config == [cfg EXCEPT !.hash = nextSpawn]
        idx == SpawnIndex(particles, config)
    IN  /\ poolCalls < maxCalls
        /\ particles' = [particles EXCEPT ![idx] = Spawned(@, config)]
        /\ poolCall' = [op |-> "spawn", config |-> config, dt |-> 0, idx |-> idx,
                        full |-> FirstInactive(particles) = -1]
        /\ poolCalls' = poolCalls + 1
        /\ nextSpawn' = nextSpawn + 1
        /\ UNCHANGED activeCount
        /\ UNCHANGED notPoolVars

Spawn(cfg) == SpawnWithin(MaxPoolCalls, cfg)

\* ------------------------------------------------------------------------
\* ParticlePool.update: lifecycle of one slot (lines 196-307)
\* ------------------------------------------------------------------------
\* The colour of a particle and the transaction's metadata other than the
\* hash are not part of the record.

\* -Math.log(LIFECYCLE.velocityDampingRate) (line 192), in Scale units.
baseDampLog == LnRatio(Scale, velocityDampingRate)

\* Variant of the damping: the per-second rate at every call, whatever dt.
velDampPerCall(dampingMult, dt) == velocityDampingRate

\* velDamp (lines 192 and 227): exp(log(velocityDampingRate) * dampingMult
\* * dt), in Scale units.
velDamp(dampingMult, dt) ==
    ExpNeg((((baseDampLog * dt) \div 1000) * dampingMult) \div 1000)

\* Variant of the trail timer: the time beyond the interval is kept.
trailTimerCarried(timer) == timer - trailSampleInterval

\* The trail timer after a sample (line 213).
trailTimerAfterSample(timer) == 0

\* Trail sampling, position update and velocity damping of a particle that
\* passed the age check (lines 210-230).
Moved(p0, dt0) ==
    CHOOSE r \in {
    LET timer == p.trailTimer + dt
        sampled == timer >= trailSampleInterval
        x == p.x + (p.vx * dt) \div 1000
        y == p.y + (p.vy * dt) \div 1000
        z == p.z + (p.vz * dt) \div 1000
    IN  [p EXCEPT
           !.trailTimer = IF sampled THEN trailTimerAfterSample(timer) ELSE timer,
           !.trailX = IF sampled THEN [@ EXCEPT ![p.trailHead] = p.x] ELSE @,
           !.trailY = IF sampled THEN [@ EXCEPT ![p.trailHead] = p.y] ELSE @,
           !.trailZ = IF sampled THEN [@ EXCEPT ![p.trailHead] = p.z] ELSE @,
           !.trailHead = IF sampled THEN (@ + 1) % TRAIL_LENGTH ELSE @,
           !.trailFill = IF sampled /\ @ < TRAIL_LENGTH THEN @ + 1 ELSE @,
           !.x = x, !.y = y, !.z = z,
           !.vx = Mul(@, d), !.vy = Mul(@, d), !.vz = Mul(@, d),
           !.path = @ \cup {<<x, y, z>>},
           !.updates = @ + 1,
           !.minDt = IF @ = 0 THEN dt ELSE Min(@, dt),
           !.samples = IF sampled THEN @ + 1 ELSE @]
    : p \in {p0}, dt \in {dt0}, d \in {velDamp(p0.dampingMult, dt0)}} : TRUE

UpdateWhale(p, age, dt) ==
    LET whaleSpawnT == Min((age * Scale) \div spawnEaseDuration, Scale)
        whaleSpawnEase == Scale - Cube(Scale - whaleSpawnT)
        timeLeft == p.maxAge - age
        decayT == IF timeLeft < glowFallTime
                  THEN (timeLeft * Scale) \div glowFallTime ELSE Scale
        decayEase == Cube(decayT)
        riseT == Min((age * Scale) \div glowRiseTime, Scale)
        riseEase == Scale - Cube(Scale - riseT)
        energyDecay == ExpNeg((((dt * LN2) \div energyHalfLife) * 1000)
                                \div p.energyHalfLifeMult)
    IN  [p EXCEPT !.age = age,
                  !.whaleGlowIntensity = Mul(riseEase, decayEase),
                  !.energy = Mul(p.energy, energyDecay),
                  !.size = Mul(Mul(p.targetSize, whaleSpawnEase), decayEase),
                  !.opacity = Mul(whaleSpawnEase, decayEase)]

UpdateNormal(p, age, dt) ==
    LET life == (age * Scale) \div p.maxAge
        spawnT == Min((age * Scale) \div spawnDuration, Scale)
        spawnEnv == Scale - Cube(Scale - spawnT)
        energyDecay == ExpNeg((((dt * LN2) \div energyHalfLife) * 1000)
                                \div p.energyHalfLifeMult)
        energy == Mul(p.energy, energyDecay)
        shrinkProgress == ((life - sizeFadeStart) * Scale) \div (Scale - sizeFadeStart)
        shrunk == IF life < sizeFadeStart
                  THEN Mul(p.targetSize, spawnEnv)
                  ELSE Mul(p.targetSize, Scale - Sq(shrinkProgress))
        fadeProgress == ((life - opacityFadeStart) * Scale) \div (Scale - opacityFadeStart)
        smoothFade == Mul(Sq(fadeProgress), 3 * Scale - 2 * fadeProgress)
        opacity == IF life < opacityFadeStart
                   THEN spawnEnv
                   ELSE Mul(spawnEnv, Scale - smoothFade)
                        + Mul(Mul(spawnEnv, energy), smoothFade)
    IN  [p EXCEPT !.age = age,
                  !.energy = energy,
                  !.size = shrunk,
                  !.opacity = Mul(opacity, 3000 + Mul(7000, energy))]

\* Variant of the loop body: no age check and no early death.
UpdateParticleUndying(p, dt) ==
    IF ~p.active THEN p
    ELSE LET m == Moved(p, dt)
         IN  IF m.isWhale THEN UpdateWhale(m, p.age + dt, dt)
             ELSE UpdateNormal(m, p.age + dt, dt)

\* The body of the loop over the slots (lines 196-306).
UpdateParticle(p, dt) ==
    IF ~p.active THEN p
    ELSE LET age == p.age + dt
         IN  IF age >= p.maxAge
             THEN [p EXCEPT !.age = age, !.active = FALSE]
             ELSE CHOOSE r \in
                      {IF q.opacity < minOpacity \/ q.energy < minEnergy
                          \/ q.size < minSize
                       THEN [q EXCEPT !.active = FALSE]
                       ELSE q :
                          q \in {IF m.isWhale THEN UpdateWhale(m, age, dt)
                                 ELSE UpdateNormal(m, age, dt) :
                                     m \in {Moved(p, dt)}}} : TRUE

ActiveSlots(ps) == {i \in Slots : ps[i].active}

\* ------------------------------------------------------------------------
\* ParticlePool.update: the attraction pass (lines 309-355)
\* ------------------------------------------------------------------------
\* a * b in Scale units, in two parts so that a product of coordinates
\* stays within the integer width.
MulWide(a, b) == (a \div Scale) * b + ((a % Scale) * b) \div Scale

\* Variant of the collection: after the early-death check of the slot.
RECURSIVE CollectLiveWhales(_, _, _, _)
CollectLiveWhales(ps, dt, i, whales) ==
    IF i >= Capacity THEN whales
    ELSE IF UpdateParticle(ps[i], dt).active /\ ps[i].isWhale
            /\ Len(whales) < maxSimultaneousWhales
         THEN CollectLiveWhales(ps, dt, i + 1, Append(whales, i))
         ELSE CollectLiveWhales(ps, dt, i + 1, whales)

\* The slots pushed to `whales` by the loop over the slots ps (lines 262-
\* 264), from slot i on: the push is in the whale branch, which a particle
\* reaches when it is active and passes the age check (lines 198-208).
RECURSIVE CollectWhales(_, _, _, _)
CollectWhales(ps, dt, i, whales) ==
    IF i >= Capacity THEN whales
    ELSE IF ps[i].active /\ ps[i].isWhale /\ ps[i].age + dt < ps[i].maxAge
            /\ Len(whales) < maxSimultaneousWhales
         THEN CollectWhales(ps, dt, i + 1, Append(whales, i))
         ELSE CollectWhales(ps, dt, i + 1, whales)

\* The pull of the whale w on the particle p (lines 321-352).
Pull(p, w, dt) ==
    LET dx == w.x - p.x
        dy == w.y - p.y
        dz == w.z - p.z
        distSq == MulWide(dx, dx) + MulWide(dy, dy) + MulWide(dz, dz)
    IN  IF distSq > MulWide(attractionRadius, attractionRadius) \/ distSq < 100
        THEN p
        ELSE LET dist == Isqrt(distSq * 100) * 10
                 normDist == (dist * Scale) \div attractionRadius
                 edge == Scale - Mul(Sq(normDist), 3 * Scale - 2 * normDist)
                 forceMag == (Mul(Mul(attractionStrength, edge),
                                  w.whaleGlowIntensity) * Scale)
                             \div (Scale + distSq)
                 nx == (dx * Scale) \div dist
                 ny == (dy * Scale) \div dist
                 nz == (dz * Scale) \div dist
                 tLen == Isqrt((Sq(ny) + Sq(nx)) * Scale)
                 tx == IF tLen > 10 THEN (ny * Scale) \div tLen ELSE ny
                 ty == IF tLen > 10 THEN ((-nx) * Scale) \div tLen ELSE -nx
                 radial == Mul(forceMag, Scale - swirlFactor)
                 tangential == Mul(forceMag, swirlFactor)
             IN  [p EXCEPT
                    !.vx = @ + ((Mul(nx, radial) + Mul(tx, tangential)) * dt)
                               \div 1000,
                    !.vy = @ + ((Mul(ny, radial) + Mul(ty, tangential)) * dt)
                               \div 1000,
                    !.vz = @ + (Mul(nz, radial) * dt) \div 1000]

\* The inner loop over the collected whales (lines 320-353).
RECURSIVE PullAll(_, _, _, _)
PullAll(p, ps, whales, dt) ==
    IF whales = <<>> THEN p
    ELSE PullAll(Pull(p, ps[Head(whales)], dt), ps, Tail(whales), dt)

\* The pass over the slots ps as the first loop left them (lines 310-355).
Attracted(ps, whales, dt) ==
    [i \in Slots |-> IF ~ps[i].active \/ ps[i].isWhale THEN ps[i]
                     ELSE PullAll(ps[i], ps, whales, dt)]

\* update(dt) on the slots ps: the loop over the slots, then the attraction
\* pass with the whales the loop collected.
Updated(ps, dt) ==
    CHOOSE r \in {Attracted(loop, whales, dt) :
                     loop \in {[i \in Slots |-> UpdateParticle(ps[i], dt)]},
                     whales \in {CollectWhales(ps, dt, 0, <<>>)}} : TRUE

\* update(dt), as one of at most maxCalls calls of a run.
UpdateWithin(maxCalls, dt) ==
    /\ poolCalls < maxCalls
    /\ particles' = Updated(particles, dt)
    /\ activeCount' = Cardinality(ActiveSlots(particles'))
    /\ poolCall' = [op |-> "update", config |-> <<>>, dt |-> dt, idx |-> -1,
                    full |-> FALSE]
    /\ poolCalls' = poolCalls + 1
    /\ UNCHANGED nextSpawn
    /\ UNCHANGED notPoolVars

Update(dt) == UpdateWithin(MaxPoolCalls, dt)

\* ------------------------------------------------------------------------
\* ParticlePool.clear (lines 434-439)
\* ------------------------------------------------------------------------
\* clear(), as one of at most maxCalls calls of a run.
ClearWithin(maxCalls) ==
    /\ poolCalls < maxCalls
    /\ particles' = [i \in Slots |-> [particles[i] EXCEPT !.active = FALSE]]
    /\ activeCount' = 0
    /\ poolCall' = [op |-> "clear", config |-> <<>>, dt |-> 0, idx |-> -1,
                    full |-> FALSE]
    /\ poolCalls' = poolCalls + 1
    /\ UNCHANGED nextSpawn
    /\ UNCHANGED notPoolVars

ClearPool == ClearWithin(MaxPoolCalls)

\* ------------------------------------------------------------------------
\* Inputs and specification of the pool
\* ------------------------------------------------------------------------
\* Spawn configurations as ParticleField builds them: a non-whale lives 3 to
\* 6 s, a whale 8 to 12 s.
\* A non-whale starts one unit from the place of a whale and drifts.
SpawnConfigs ==
    {[isWhale |-> FALSE, maxAge |-> m, size |-> 3000,
      energyHalfLifeMult |-> 1000, hash |-> 0, chainId |-> "ethereum",
      x |-> Scale, y |-> 0, z |-> 0, vx |-> 2000, vy |-> -1000, vz |-> 0,
      dampingMult |-> 1000] :
        m \in {3000, 6000}} \cup
    {[isWhale |-> TRUE, maxAge |-> m, size |-> 20000,
      energyHalfLifeMult |-> 1300, hash |-> 0, chainId |-> "ethereum",
      x |-> 0, y |-> 0, z |-> 0, vx |-> 0, vy |-> 0, vz |-> 0,
      dampingMult |-> 800] :
        m \in {8000}}

\* Frame times: a very short frame, a stalled frame, a long pause.
FrameTimes == {1, 1000, 2500}

PoolInit ==
    /\ particles = [i \in Slots |-> EmptyParticle]
    /\ activeCount = 0
    /\ poolCall = [op |-> "new", config |-> <<>>, dt |-> 0, idx |-> -1, full |-> FALSE]
    /\ poolCalls = 0
    /\ nextSpawn = 1

PoolNext ==
    \/ \E cfg \in SpawnConfigs : Spawn(cfg)
    \/ \E dt \in FrameTimes : Update(dt)
    \/ ClearPool

\* ------------------------------------------------------------------------
\* ParticlePool.writeTrailBuffers
\* ------------------------------------------------------------------------
\* The samples the inner loop emits for the particle p of slot i (lines
\* 411-429), oldest first: the place in the ring buffer and the position
\* read from it.
TrailOf(p, i) ==
    [k \in 1..p.trailFill |->
        LET t == k - 1
            bufIdx == (p.trailHead - p.trailFill + t + TRAIL_LENGTH)
                      % TRAIL_LENGTH
        IN  [slot |-> i, bufIdx |-> bufIdx,
             position |-> <<p.trailX[bufIdx], p.trailY[bufIdx],
                            p.trailZ[bufIdx]>>]]

RECURSIVE TrailLoop(_, _, _)
TrailLoop(ps, i, out) ==
    IF i >= Capacity THEN out
    ELSE IF ~ps[i].active \/ ps[i].trailFill = 0
         THEN TrailLoop(ps, i + 1, out)
         ELSE TrailLoop(ps, i + 1, out \o TrailOf(ps[i], i))

\* writeTrailBuffers (lines 391-432): the samples written, and the count
\* returned.
writeTrailBuffers(ps) ==
    LET out == TrailLoop(ps, 0, <<>>)
    IN  [idx |-> Len(out), samples |-> out]

\* ------------------------------------------------------------------------
\* The pool under small ticks: runs long enough for a trail ring buffer to
\* wrap around and for a slot to be used again.
\* ------------------------------------------------------------------------
MaxMotionCalls == 11
MaxMotionSpawns == 2

\* Two entities that move, at different places.
MotionConfigs ==
    {[isWhale |-> FALSE, maxAge |-> 3000, size |-> 3000,
      energyHalfLifeMult |-> 1000, hash |-> 0, chainId |-> "ethereum",
      x |-> Scale, y |-> 0, z |-> 0, vx |-> 2000, vy |-> -1000, vz |-> 0,
      dampingMult |-> 1000],
     [isWhale |-> FALSE, maxAge |-> 6000, size |-> 3000,
      energyHalfLifeMult |-> 900, hash |-> 0, chainId |-> "polygon",
      x |-> -20000, y |-> 5000, z |-> 1000, vx |-> -1000, vy |-> 1500,
      vz |-> 500, dampingMult |-> 1200]}

\* Ticks of at most trailSampleInterval. The pool is updated and cleared
\* while it holds an active entity.
MotionTimes == {40, 60}

MotionNext ==
    \/ \E cfg \in MotionConfigs :
          nextSpawn <= MaxMotionSpawns /\ SpawnWithin(MaxMotionCalls, cfg)
    \/ \E dt \in MotionTimes :
          ActiveSlots(particles) # {} /\ UpdateWithin(MaxMotionCalls, dt)
    \/ ActiveSlots(particles) # {} /\ ClearWithin(MaxMotionCalls)

\* ------------------------------------------------------------------------
\* AdaptiveWhaleDetector
\* Token amounts are integers in thousandths of a token (Milli); times are
\* in milliseconds; USD amounts are whole dollars.
\* ------------------------------------------------------------------------
Milli == 1000

WINDOW_SIZE == 200
COOLDOWN_MS == 3000
\* PERCENTILE = 0.95, as a fraction of integers.
PERCENTILE_NUM == 95
PERCENTILE_DEN == 100
PERCENTILE_MULTIPLIER == 2
\* A key is cold below this many samples (the literal 20 of getThreshold).
WARM_FILL == 20
\* The fallback static threshold (`?? 5`).
DEFAULT_THRESHOLD == 5 * Milli

\* Handler and setter calls over a run.
MaxDetCalls == 3
\* Samples recorded per key over a run.
MaxSamples == 201

\* CHAINS[chainId].whaleThreshold and .nativeCurrency.
CHAINS ==
    [ethereum |-> [whaleThreshold |-> 5 * Milli, nativeCurrency |-> "ETH"],
     polygon  |-> [whaleThreshold |-> 25000 * Milli, nativeCurrency |-> "MATIC"],
     arbitrum |-> [whaleThreshold |-> 5 * Milli, nativeCurrency |-> "ETH"]]

\* The token registry entries used here: symbol -> whaleThreshold.
REGISTRY ==
    [ethereum |-> [WETH |-> 5 * Milli, USDC |-> 100000 * Milli]]

STABLECOIN_SYMBOLS == {"USDT", "USDC", "DAI"}

\* The price cache once prices have been fetched, in USD per token.
priceCache == [ETH |-> 2000, WETH |-> 2000]

\* A detection key is the sequence of the parts that split(':') yields:
\* <<chainId>> for a native transfer, <<chainId, symbol>> for a token.
NativeKey(chainId) == <<chainId>>
TokenKey(chainId, symbol) == <<chainId, symbol>>
KeyChain(key) == key[1]
KeyIsToken(key) == Len(key) > 1 /\ key[2] # ""

getTokenWhaleThreshold(chainId, symbol) ==
    IF chainId \in DOMAIN REGISTRY /\ symbol \in DOMAIN REGISTRY[chainId]
    THEN REGISTRY[chainId][symbol]
    ELSE -1

StaticThreshold(key) ==
    IF KeyIsToken(key)
    THEN LET t == getTokenWhaleThreshold(KeyChain(key), key[2])
         IN  IF t = -1 THEN DEFAULT_THRESHOLD ELSE t
    ELSE IF KeyChain(key) \in DOMAIN CHAINS
         THEN CHAINS[KeyChain(key)].whaleThreshold
         ELSE DEFAULT_THRESHOLD

getCachedPrice(symbol) ==
    IF symbol \in DOMAIN priceCache THEN priceCache[symbol] ELSE 0

\* applyUserFloor (lines 78-97); userUsd is the store's whaleThresholdUsd.
applyUserFloor(threshold, key, userUsd) ==
    IF userUsd <= 0 THEN threshold
    ELSE IF KeyIsToken(key) /\ key[2] \in STABLECOIN_SYMBOLS
         THEN Max(threshold, userUsd * Milli)
         ELSE LET symbol == IF KeyIsToken(key) THEN key[2]
                            ELSE IF KeyChain(key) \in DOMAIN CHAINS
                                 THEN CHAINS[KeyChain(key)].nativeCurrency
                                 ELSE ""
                  price == getCachedPrice(symbol)
              IN  IF price > 0
                  THEN Max(threshold, (userUsd * Milli) \div price)
                  ELSE threshold

\* The ChainState that getState creates (lines 28-35).
NewChainState ==
    [values |-> [i \in 1..WINDOW_SIZE |-> 0],
     head |-> 0,
     fill |-> 0,
     sorted |-> <<>>,
     sortDirty |-> TRUE,
     lastWhaleTime |-> 0]

\* getState: the map with the key's state created if it was missing.
getState(det, key) ==
    IF key \in DOMAIN det THEN det
    ELSE [k \in DOMAIN det \cup {key} |->
            IF k = key THEN NewChainState ELSE det[k]]

\* Variant of recordValue: the write position is never wrapped, so that a
\* full window drops the new sample.
recordValueNoWrap(det, key, valueInToken) ==
    LET d == getState(det, key)
        state == d[key]
    IN  [d EXCEPT ![key] =
            [state EXCEPT
                !.values = IF state.head < WINDOW_SIZE
                           THEN [@ EXCEPT ![state.head + 1] = valueInToken]
                           ELSE @,
                !.head = Min(state.head + 1, WINDOW_SIZE),
                !.fill = IF state.fill < WINDOW_SIZE THEN @ + 1 ELSE @,
                !.sortDirty = TRUE]]

\* The write of recordValue on a state (lines 42-46).
Written(state, valueInToken) ==
    [state EXCEPT
        !.values = [@ EXCEPT ![state.head + 1] = valueInToken],
        !.head = (state.head + 1) % WINDOW_SIZE,
        !.fill = IF state.fill < WINDOW_SIZE THEN @ + 1 ELSE @,
        !.sortDirty = TRUE]

\* Variant of recordValue: the value is also written to the window of
\* another key that has one.
recordValueAllKeys(det, key, valueInToken) ==
    LET d == getState(det, key)
        others == DOMAIN d \ {key}
    IN  IF others = {} THEN [d EXCEPT ![key] = Written(@, valueInToken)]
        ELSE [d EXCEPT ![key] = Written(@, valueInToken),
                       ![CHOOSE k \in others : TRUE] =
                           Written(@, valueInToken)]

\* Variant of recordValue: the cached sorted copy is not invalidated.
recordValueKeepSort(det, key, valueInToken) ==
    LET d == getState(det, key)
        state == d[key]
    IN  [d EXCEPT ![key] =
            [state EXCEPT
                !.values = [@ EXCEPT ![state.head + 1] = valueInToken],
                !.head = (state.head + 1) % WINDOW_SIZE,
                !.fill = IF state.fill < WINDOW_SIZE THEN @ + 1 ELSE @]]

\* recordValue (lines 41-47); the array is 0-based in the source.
recordValue(det, key, valueInToken) ==
    LET d == getState(det, key)
        state == d[key]
    IN  [d EXCEPT ![key] =
            [state EXCEPT
                !.values = [@ EXCEPT ![state.head + 1] = valueInToken],
                !.head = (state.head + 1) % WINDOW_SIZE,
                !.fill = IF state.fill < WINDOW_SIZE THEN @ + 1 ELSE @,
                !.sortDirty = TRUE]]

\* Array.prototype.sort((a, b) => a - b) on numbers: the least value of
\* vals, as many times as it occurs in w, then the rest in the same way.
RECURSIVE SortRuns(_, _)
SortRuns(w, vals) ==
    IF vals = {} THEN <<>>
    ELSE LET v == CHOOSE x \in vals : \A y \in vals : x <= y
             n == Cardinality({i \in DOMAIN w : w[i] = v})
         IN  [i \in 1..n |-> v] \o SortRuns(w, vals \ {v})

\* values.slice(0, fill).sort((a, b) => a - b)
SortedWindow(state) ==
    LET w == SubSeq(state.values, 1, state.fill)
    IN  SortRuns(w, {w[i] : i \in DOMAIN w})

\* getThreshold (lines 49-74): the threshold and the map it leaves, whose
\* sorted copy has been refreshed if it was dirty.
getThreshold(det, key, userUsd) ==
    LET staticThreshold == StaticThreshold(key) IN
    IF key \notin DOMAIN det \/ det[key].fill < WARM_FILL
    THEN [det |-> det,
          threshold |-> applyUserFloor(staticThreshold, key, userUsd)]
    ELSE LET state == det[key]
             sorted == IF state.sortDirty THEN SortedWindow(state)
                       ELSE state.sorted
             p95Index == (Len(sorted) * PERCENTILE_NUM) \div PERCENTILE_DEN
             p95Value == sorted[Min(p95Index, Len(sorted) - 1) + 1]
             adaptiveThreshold == p95Value * PERCENTILE_MULTIPLIER
         IN  [det |-> [det EXCEPT ![key] =
                          [state EXCEPT !.sorted = sorted,
                                        !.sortDirty = FALSE]],
              threshold |-> applyUserFloor(
                                Max(staticThreshold, adaptiveThreshold),
                                key, userUsd)]

\* Variant of isWhale: the cooldown also covers the instant it ends.
isWhaleLate(det, key, valueInToken, t, userUsd) ==
    LET d == getState(det, key)
        g == getThreshold(d, key, userUsd)
        threshold == IF t - d[key].lastWhaleTime <= COOLDOWN_MS
                     THEN g.threshold * 2 ELSE g.threshold
        fires == valueInToken >= threshold
    IN  [det |-> IF fires
                 THEN [g.det EXCEPT ![key].lastWhaleTime = t]
                 ELSE g.det,
         whale |-> fires,
         threshold |-> g.threshold]

\* AdaptiveWhaleDetector.isWhale (lines 99-120) at Date.now() = t: the
\* decision, the map it leaves, and the getThreshold value it compared with
\* (before the doubling of the cooldown).
isWhale(det, key, valueInToken, t, userUsd) ==
    LET d == getState(det, key)
        g == getThreshold(d, key, userUsd)
        threshold == IF t - d[key].lastWhaleTime < COOLDOWN_MS
                     THEN g.threshold * 2 ELSE g.threshold
        fires == valueInToken >= threshold
    IN  [det |-> IF fires
                 THEN [g.det EXCEPT ![key].lastWhaleTime = t]
                 ELSE g.det,
         whale |-> fires,
         threshold |-> g.threshold]

\* WhaleDetector.isWhale: the static test of a native transfer.
staticIsWhale(raw) ==
    IF raw.chainId \notin DOMAIN CHAINS THEN FALSE
    ELSE raw.value >= CHAINS[raw.chainId].whaleThreshold

\* ------------------------------------------------------------------------
\* blockPulseEvents (src/src/visualization/blockPulseEvents.ts)
\* An event is [chainId, id]: id is the identity of the event object, the
\* number of the queueBlockPulse call that was given it.
\* ------------------------------------------------------------------------
\* The consumer ids of ParticleField and BlockPulse.
Consumers == {"particleNudge", "blockPulseVisual"}

\* queueBlockPulse (lines 19-26) on [queues, staging]
queueBlockPulse(ps, event) ==
    [ps EXCEPT
        !.queues = [c \in DOMAIN ps.queues |-> Append(ps.queues[c], event)],
        !.staging = Append(@, event)]

\* drainBlockPulses (lines 30-38): the state it leaves and what it returns.
drainBlockPulses(ps, consumerId) ==
    IF consumerId \notin DOMAIN ps.queues
    THEN [state |-> [ps EXCEPT
                        !.queues = [c \in DOMAIN ps.queues \cup {consumerId}
                                       |-> IF c = consumerId THEN <<>>
                                           ELSE ps.queues[c]],
                        !.staging = <<>>],
          result |-> ps.staging]
    ELSE [state |-> [ps EXCEPT !.queues[consumerId] = <<>>],
          result |-> ps.queues[consumerId]]

\* The state after queueBlockPulse of a new event of the chain.
Queued(ps, chainId) ==
    LET event == [chainId |-> chainId, id |-> Len(ps.queued) + 1]
    IN  [queueBlockPulse(ps, event) EXCEPT
            !.queued = Append(@, event),
            !.call = [op |-> "queue", consumer |-> "", result |-> <<event>>]]

\* The state after drainBlockPulses(consumerId).
Drawn(ps, consumerId) ==
    LET d == drainBlockPulses(ps, consumerId)
    IN  [d.state EXCEPT
            !.returned[consumerId] = @ \o d.result,
            !.call = [op |-> "drain", consumer |-> consumerId,
                      result |-> d.result]]

PulseInit ==
    pulses = [queues |-> <<>>, staging |-> <<>>, queued |-> <<>>,
              returned |-> [c \in Consumers |-> <<>>],
              call |-> [op |-> "", consumer |-> "", result |-> <<>>]]

\* ------------------------------------------------------------------------
\* TransactionMapper.mapTransaction and the batch handler of useChainData
\* ------------------------------------------------------------------------
\* A raw transaction is [chainId, symbol, value]: symbol is "" when it has
\* no tokenTransfer, value is the amount already divided by its decimals.
whaleKeyOf(raw) ==
    IF raw.symbol # "" THEN TokenKey(raw.chainId, raw.symbol)
    ELSE NativeKey(raw.chainId)

\* MAX_VALUE and MAX_VALUE_STABLECOIN in tokens; LOG_MAX and LOG_MAX_STABLE
\* (part_015 lines 50-54).
MAX_VALUE == 50
MAX_VALUE_STABLECOIN == 500000
LOG_MAX == LnRatio(Milli + MAX_VALUE * Milli, Milli)
LOG_MAX_STABLE == LnRatio(Milli + MAX_VALUE_STABLECOIN * Milli, Milli)

\* logNorm (line 84) of an amount in thousandths of a token.
logNormOf(raw) ==
    LET logMax == IF raw.symbol \in STABLECOIN_SYMBOLS THEN LOG_MAX_STABLE
                  ELSE LOG_MAX
    IN  Min((LnRatio(Milli + raw.value, Milli) * Scale) \div logMax, Scale)

\* size and intensity of the visual descriptor (lines 85 and 87).
visualOf(raw, whale) ==
    CHOOSE v \in
        {[size |-> IF whale THEN Scale ELSE Mul(PowHalf(logNorm), 8000) + 500,
          intensity |-> IF whale THEN Scale
                        ELSE Mul(PowTwoFifths(logNorm), 8000) + 2000] :
            logNorm \in {logNormOf(raw)}} : TRUE

\* Variant of mapTransaction: the whale check comes before recordValue.
mapTransactionCheckFirst(det, raw, t, userUsd) ==
    LET whaleKey == whaleKeyOf(raw)
        d0 == getState(det, whaleKey)
        a == isWhale(d0, whaleKey, raw.value, t, userUsd)
        tt == raw.symbol # ""
        whale == IF tt THEN a.whale ELSE staticIsWhale(raw)
        d1 == IF tt THEN a.det ELSE d0
        d2 == recordValue(d1, whaleKey, raw.value)
    IN  [det |-> d2,
         decision |-> [key |-> whaleKey,
                       value |-> raw.value,
                       token |-> tt,
                       whale |-> whale,
                       adaptive |-> a.whale,
                       threshold |-> a.threshold,
                       last |-> d0[whaleKey].lastWhaleTime,
                       lastAfter |-> d2[whaleKey].lastWhaleTime,
                       at |-> t,
                       visual |-> visualOf(raw, whale)]]

\* mapTransaction (lines 56-81) at Date.now() = t: the detector map it
\* leaves and what it decided. `adaptive` is what the adaptive detector
\* answers for the key at the moment of the whale check, `threshold` the
\* key's threshold at that moment, `last` and `lastAfter` the key's
\* lastWhaleTime before and after the check.
mapTransaction(det, raw, t, userUsd) ==
    LET whaleKey == whaleKeyOf(raw)
        d1 == recordValue(det, whaleKey, raw.value)
        a == isWhale(d1, whaleKey, raw.value, t, userUsd)
        tt == raw.symbol # ""
        whale == IF tt THEN a.whale ELSE staticIsWhale(raw)
        d2 == IF tt THEN a.det ELSE d1
    IN  [det |-> d2,
         decision |-> [key |-> whaleKey,
                       value |-> raw.value,
                       token |-> tt,
                       whale |-> whale,
                       adaptive |-> a.whale,
                       threshold |-> a.threshold,
                       last |-> d1[whaleKey].lastWhaleTime,
                       lastAfter |-> d2[whaleKey].lastWhaleTime,
                       at |-> t,
                       visual |-> visualOf(raw, whale)]]

\* rawTxs.map(mapTransaction) over the transactions lo..hi in order:
\* st = [det, out], out the decisions so far. The range is halved so that
\* the evaluation stays shallow; the order of the calls is lo, lo+1, .., hi.
RECURSIVE MapAll(_, _, _, _, _, _)
MapAll(st, rawTxs, lo, hi, t, userUsd) ==
    IF lo > hi THEN st
    ELSE IF lo = hi
    THEN LET m == mapTransaction(st.det, rawTxs[lo], t, userUsd)
         IN  [det |-> m.det, out |-> Append(st.out, m.decision)]
    ELSE LET mid == (lo + hi) \div 2
             left == MapAll(st, rawTxs, lo, mid, t, userUsd)
         IN  IF Len(left.out) >= 0
             THEN MapAll(left, rawTxs, mid + 1, hi, t, userUsd)
             ELSE left

\* The [chainId, isWhale] of the processed transactions, as push takes them.
ProcessedShape(rawTxs, out) ==
    [i \in DOMAIN rawTxs |->
        [chainId |-> rawTxs[i].chainId, isWhale |-> out[i].whale]]

ValuesFor(rawTxs, key) ==
    LET mine == SelectSeq(rawTxs, LAMBDA raw : whaleKeyOf(raw) = key)
    IN  [i \in DOMAIN mine |-> mine[i].value]

DetKeys == {NativeKey("ethereum"), TokenKey("ethereum", "WETH")}

\* Some isWhale call of the batch on this key returned true.
Fired(out, key) ==
    \E i \in DOMAIN out : out[i].key = key /\ out[i].token /\ out[i].whale

WINDOW_MS == 5000

\* The pruning loop of ActivityMonitor.record (lines 43-46).
RECURSIVE PruneOld(_, _)
PruneOld(buckets, cutoff) ==
    IF buckets # <<>> /\ Head(buckets).timestamp < cutoff
    THEN PruneOld(Tail(buckets), cutoff)
    ELSE buckets

\* SMOOTHING = 0.08, in hundredths: the EMA factor of the monitor.
SMOOTHING_PCT == 8

\* The entry getChain creates for a chain on its first record: no bucket,
\* level 1, baseline 5 transactions per second (levels and rates in units
\* of 1 / Scale). recorded is the chain's presence in the monitor's map.
NewChain ==
    [recorded |-> FALSE, buckets |-> <<>>, smoothedLevel |-> Scale,
     baselineRate |-> 5 * Scale]

RECURSIVE TotalTx(_)
TotalTx(buckets) ==
    IF buckets = <<>> THEN 0
    ELSE Head(buckets).count + TotalTx(Tail(buckets))

\* ActivityMonitor.record(chainId, txCount) at the time t (lines 36-59):
\* the bucket is pushed and the old ones pruned, the baseline moves by a
\* hundredth of its distance to the raw rate and stays at least 1, the
\* level moves by SMOOTHING of its distance to the ratio.
record(am, chainId, txCount, t) ==
    LET chain == am.chains[chainId]
        buckets == PruneOld(Append(chain.buckets,
                                   [timestamp |-> t, count |-> txCount]),
                            t - WINDOW_MS)
        \* totalTx / (WINDOW_MS / 1000); WINDOW_MS divides Scale * 1000
        rawRate == TotalTx(buckets) * ((Scale * 1000) \div WINDOW_MS)
        moved == chain.baselineRate
                    + (rawRate - chain.baselineRate) \div 100
        baselineRate == IF moved < Scale THEN Scale ELSE moved
        \* rawRate / baselineRate, the quotient and the remainder apart
        rawLevel == (rawRate \div baselineRate) * Scale
                    + ((rawRate % baselineRate) * Scale) \div baselineRate
        smoothedLevel == chain.smoothedLevel
                    + ((rawLevel - chain.smoothedLevel) * SMOOTHING_PCT)
                        \div 100
    IN  [am EXCEPT
            !.chains[chainId] =
                [recorded |-> TRUE, buckets |-> buckets,
                 smoothedLevel |-> smoothedLevel,
                 baselineRate |-> baselineRate],
            !.call = [op |-> "record", chainId |-> chainId,
                      level |-> 0],
            !.calls = @ + 1]

\* The chains of the monitor's map.
Recorded(am) == {c \in ChainIds : am.chains[c].recorded}

RECURSIVE SumLevels(_, _)
SumLevels(am, cs) ==
    IF cs = {} THEN 0
    ELSE LET c == CHOOSE x \in cs : TRUE
         IN  am.chains[c].smoothedLevel + SumLevels(am, cs \ {c})

\* ActivityMonitor.getActivityLevel(chainId) (lines 62-77); chainId "" is
\* the call without a chain. The level of a chain is read from its entry;
\* the global level is read by moving globalSmoothed towards the average
\* of the chains' levels and returning it.
getActivityLevel(am, chainId) ==
    LET avg == SumLevels(am, Recorded(am)) \div Cardinality(Recorded(am))
        globalSmoothed == am.globalSmoothed
                    + ((avg - am.globalSmoothed) * SMOOTHING_PCT) \div 100
        state == IF chainId # "" \/ Recorded(am) = {} THEN am
                 ELSE [am EXCEPT !.globalSmoothed = globalSmoothed]
        level == IF chainId # ""
                 THEN IF am.chains[chainId].recorded
                      THEN am.chains[chainId].smoothedLevel
                      ELSE Scale
                 ELSE IF Recorded(am) = {} THEN Scale
                 ELSE globalSmoothed
    IN  [state EXCEPT
            !.call = [op |-> "read", chainId |-> chainId,
                      level |-> level],
            !.calls = @ + 1]

\* The monitor of the module: no chain, globalSmoothed 1.
ActivityInit ==
    activity = [chains |-> [c \in ChainIds |-> NewChain],
                globalSmoothed |-> Scale,
                call |-> [op |-> "init", chainId |-> "", level |-> 0],
                calls |-> 0]

\* handleRawTransactions(rawTxs) of the chain of its first transaction,
\* called dt ms after the previous call: classifies the batch in order,
\* pushes it to the queue, records it in the activity monitor and queues
\* the block pulse of its chain (part_023 lines 74-92; every batch is of a
\* block newer than the latest block the store has for the chain). This is
\* what the call does to the detector, the queue, the monitor and the
\* block pulses.
Handled(rawTxs, dt) ==
    /\ detCalls < MaxDetCalls
    /\ \A k \in DetKeys :
          Len(samples[k]) + Len(ValuesFor(rawTxs, k)) <= MaxSamples
    /\ \E m \in {MapAll([det |-> detector, out |-> <<>>], rawTxs, 1,
                         Len(rawTxs), now + dt, whaleThresholdUsd)} :
       \E txs \in {Stamp(ProcessedShape(rawTxs, m.out))} :
       \E st \in {PushResult(txs)} :
          /\ now' = now + dt
          /\ detector' = m.det
          /\ decisions' = m.out
          /\ samples' = [k \in DetKeys |->
                            samples[k] \o ValuesFor(rawTxs, k)]
          /\ lastFire' = [k \in DetKeys |->
                             IF Fired(m.out, k) THEN now + dt
                             ELSE lastFire[k]]
          /\ activity' = record(activity, rawTxs[1].chainId, Len(rawTxs),
                                now + dt)
          /\ detCalls' = detCalls + 1
          /\ pulses' = IF rawTxs[1].chainId \in DOMAIN CHAINS
                       THEN Queued(pulses, rawTxs[1].chainId)
                       ELSE pulses
          /\ chains' = st.chains
          /\ chainOrder' = st.chainOrder
          /\ nextHash' = [c \in ChainIds |->
                            nextHash[c] + CountChain(rawTxs, c)]
          /\ lastCall' = [op |-> "push", txs |-> txs, count |-> 0,
                          trimmed |-> Overflowing(txs)]
          /\ result' = <<>>
          /\ calls' = calls + 1
          /\ UNCHANGED <<roundRobinIdx, lastDrained, since, stayed>>
          /\ UNCHANGED whaleThresholdUsd

HandleRawTransactions(rawTxs, dt) ==
    /\ Handled(rawTxs, dt)
    /\ UNCHANGED <<fieldVars, connVars>>

\* useStore.setWhaleThresholdUsd(v)
SetWhaleThresholdUsd(v) ==
    /\ detCalls < MaxDetCalls
    /\ whaleThresholdUsd' = v
    /\ decisions' = <<>>
    /\ detCalls' = detCalls + 1
    /\ UNCHANGED <<detector, now, samples, lastFire, activity, pulses>>
    /\ UNCHANGED <<queueVars, fieldVars, connVars>>

\* Date.now() when the page starts, any instant far from the epoch.
StartTime == 1000000

DetInit ==
    /\ detector = <<>>
    /\ whaleThresholdUsd = 0
    /\ now = StartTime
    /\ decisions = <<>>
    /\ samples = [k \in DetKeys |-> <<>>]
    /\ lastFire = [k \in DetKeys |-> -1]
    /\ ActivityInit
    /\ detCalls = 0
    /\ PulseInit

\* Batches: k transfers of one amount, one after the other.
Run(chainId, symbol, value, k) ==
    [i \in 1..k |-> [chainId |-> chainId, symbol |-> symbol, value |-> value]]

\* Amounts around the static threshold 5 and around twice a p95 of 8.
ProbeValues == {4999, 5000, 14999, 16000}
Symbols == {"", "WETH"}

\* Blocks of ordinary transfers: 19 transfers of 3 units, native or token,
\* and 190 token transfers of 3 units followed by 9 of 8 units.
FillBatches ==
    {Run("ethereum", "", 3000, 19),
     Run("ethereum", "WETH", 3000, 19),
     Run("ethereum", "WETH", 3000, 190) \o Run("ethereum", "WETH", 8000, 9)}

NativeProbes == {Run("ethereum", "", v, 1) : v \in ProbeValues}
TokenProbes == {Run("ethereum", "WETH", v, 1) : v \in ProbeValues}

UserFloors == {0, 24000}

\* The static test of a native transfer does not read the clock, so the
\* native batches arrive at one spacing only.
DetNext ==
    \/ \E b \in FillBatches : HandleRawTransactions(b, COOLDOWN_MS)
    \/ \E b \in NativeProbes : HandleRawTransactions(b, COOLDOWN_MS)
    \/ \E b \in TokenProbes, dt \in {COOLDOWN_MS - 1, COOLDOWN_MS} :
          HandleRawTransactions(b, dt)
    \/ \E v \in UserFloors : SetWhaleThresholdUsd(v)

\* ------------------------------------------------------------------------
\* The detector called directly: recordValue and getThreshold in any order
\* on one token key, getThreshold also on a key never recorded.
\* ------------------------------------------------------------------------
WindowKey == TokenKey("ethereum", "WETH")

\* The amounts sample number n + 1 of the key may have: free for the first
\* two samples and from the last sample of the first window on, 16 units up
\* to the tenth sample, 3 units in between.
SampleChoices(n) ==
    IF n < 2 \/ n >= WINDOW_SIZE - 1 THEN {3000, 16000}
    ELSE IF n < 10 THEN {16000}
    ELSE {3000}

RecordValue(key, v) ==
    /\ Len(samples[key]) < MaxSamples
    /\ detector' = recordValue(detector, key, v)
    /\ samples' = [samples EXCEPT ![key] = Append(@, v)]
    /\ decisions' = <<[op |-> "recordValue", key |-> key, value |-> v,
                       threshold |-> 0]>>
    /\ UNCHANGED <<whaleThresholdUsd, now, lastFire, activity, detCalls,
                   pulses>>
    /\ UNCHANGED <<queueVars, fieldVars, connVars>>

GetThreshold(key) ==
    \E g \in {getThreshold(detector, key, whaleThresholdUsd)} :
        /\ detector' = g.det
        /\ decisions' = <<[op |-> "getThreshold", key |-> key, value |-> 0,
                           threshold |-> g.threshold]>>
        /\ UNCHANGED <<whaleThresholdUsd, now, samples, lastFire, activity,
                       detCalls, pulses>>
        /\ UNCHANGED <<queueVars, fieldVars, connVars>>

WindowNext ==
    \/ \E v \in SampleChoices(Len(samples[WindowKey])) :
          RecordValue(WindowKey, v)
    \/ \E key \in DetKeys : GetThreshold(key)

\* ------------------------------------------------------------------------
\* blockPulseEvents called directly: queueBlockPulse by the batch handler,
\* drainBlockPulses by the frame callbacks of the two consumers, in any
\* order.
\* ------------------------------------------------------------------------
\* Events queued over a run.
MaxPulses == 3

QueueBlockPulse(chainId) ==
    /\ Len(pulses.queued) < MaxPulses
    /\ pulses' = Queued(pulses, chainId)
    /\ UNCHANGED <<queueVars, fieldVars, batchVars, connVars>>

DrainBlockPulses(consumerId) ==
    /\ pulses' = Drawn(pulses, consumerId)
    /\ UNCHANGED <<queueVars, fieldVars, batchVars, connVars>>

PulseNext ==
    \/ \E chainId \in ChainIds : QueueBlockPulse(chainId)
    \/ \E consumerId \in Consumers : DrainBlockPulses(consumerId)

\* ------------------------------------------------------------------------
\* ActivityMonitor called directly: record by the batch handler, at some
\* time after the previous call, and getActivityLevel of a chain or of
\* none, in any order.
\* ------------------------------------------------------------------------
\* Calls of the monitor over a run.
MaxMonitorCalls == 4

\* Transactions of a batch and the time between two batches: a quiet and a
\* busy block, inside and past the window of the last one.
TxCounts == {0, 10, 100}
RecordTimes == {1000, WINDOW_MS + 1000}

Record(chainId, txCount, dt) ==
    /\ activity.calls < MaxMonitorCalls
    /\ now' = now + dt
    /\ activity' = record(activity, chainId, txCount, now + dt)
    /\ UNCHANGED <<queueVars, fieldVars, connVars, pulses, detector,
                   whaleThresholdUsd, decisions, samples, lastFire,
                   detCalls>>

GetActivityLevel(chainId) ==
    /\ activity.calls < MaxMonitorCalls
    /\ activity' = getActivityLevel(activity, chainId)
    /\ UNCHANGED <<queueVars, fieldVars, connVars, pulses, detector,
                   whaleThresholdUsd, now, decisions, samples, lastFire,
                   detCalls>>

ActivityNext ==
    \/ \E chainId \in ChainIds, txCount \in TxCounts, dt \in RecordTimes :
          Record(chainId, txCount, dt)
    \/ \E chainId \in ChainIds \cup {""} : GetActivityLevel(chainId)

\* ------------------------------------------------------------------------
\* ConnectionManager, SimulationProvider and the providers of useChainData,
\* for one chain. A timer is the delay it was set with (0: none), or a flag.
\* ------------------------------------------------------------------------
MAX_RECONNECT_ATTEMPTS == 5
BASE_RECONNECT_DELAY == 2000

\* Block handlers suspended at once.
MaxInflight == 1

\* The chain of the modelled providers and the batch a block or a
\* simulation tick delivers.
HookChain == "ethereum"
ConnBatch == Run(HookChain, "", 3000, 1)

\* cleanupProvider (lines 264-284)
cleanupProvider(c) ==
    IF c.provider
    THEN [c EXCEPT !.blockTimeoutId = FALSE, !.provider = FALSE,
                   !.wsHandlers = FALSE, !.blockListener = FALSE]
    ELSE [c EXCEPT !.blockTimeoutId = FALSE]

\* Variant of handleDisconnect: one more reconnect is scheduled.
handleDisconnectOneMore(c) ==
    IF c.destroyed THEN [cm |-> c, emitted |-> <<>>]
    ELSE LET c1 == cleanupProvider(c)
         IN  [cm |-> IF c1.reconnectAttempts <= MAX_RECONNECT_ATTEMPTS
                     THEN [c1 EXCEPT
                             !.reconnectTimer =
                                 BASE_RECONNECT_DELAY * 2 ^ c1.reconnectAttempts,
                             !.reconnectAttempts = @ + 1]
                     ELSE c1,
              emitted |-> <<"error">>]

\* handleDisconnect (lines 237-262): the fields it leaves and the status
\* callbacks it invoked.
handleDisconnect(c) ==
    IF c.destroyed THEN [cm |-> c, emitted |-> <<>>]
    ELSE LET c1 == cleanupProvider(c)
         IN  [cm |-> IF c1.reconnectAttempts < MAX_RECONNECT_ATTEMPTS
                     THEN [c1 EXCEPT
                             !.reconnectTimer =
                                 BASE_RECONNECT_DELAY * 2 ^ c1.reconnectAttempts,
                             !.reconnectAttempts = @ + 1]
                     ELSE c1,
              emitted |-> <<"error">>]

\* connect up to its await (lines 40-51): the fields it leaves and whether
\* a handshake is now pending.
connect(c) ==
    IF c.destroyed THEN [cm |-> c, pending |-> FALSE]
    ELSE [cm |-> [cleanupProvider(c) EXCEPT !.provider = TRUE],
          pending |-> TRUE]

\* Variant of the rest of connect: no destroyed check after the await.
connectedUnchecked(c) ==
    [c EXCEPT !.reconnectAttempts = 0, !.receivedFirstBlock = FALSE,
              !.wsHandlers = TRUE, !.blockListener = TRUE,
              !.blockTimeoutId = TRUE]

\* connect after a successful handshake (lines 57-234).
connected(c) ==
    IF c.destroyed THEN cleanupProvider(c)
    ELSE [c EXCEPT !.reconnectAttempts = 0, !.receivedFirstBlock = FALSE,
                   !.wsHandlers = TRUE, !.blockListener = TRUE,
                   !.blockTimeoutId = TRUE]

\* Variant of disconnect: a call on a manager already destroyed clears the
\* first-block flag.
disconnectResetting(c) ==
    cleanupProvider([c EXCEPT !.destroyed = TRUE, !.reconnectTimer = 0,
                              !.receivedFirstBlock = ~c.destroyed /\ @])

\* disconnect (lines 286-293)
disconnect(c) ==
    cleanupProvider([c EXCEPT !.destroyed = TRUE, !.reconnectTimer = 0])

\* SimulationProvider.stop (part_010 lines 136-141)
stop(s) == [s EXCEPT !.timeoutId = FALSE]

\* The transaction callback: handleRawTransactions when invoked.
Callback(invoked) ==
    IF invoked THEN Handled(ConnBatch, COOLDOWN_MS)
    ELSE UNCHANGED <<queueVars, detVars>>

\* What a ConnectionManager handler leaves: its fields, the suspended
\* calls, the callbacks it invoked, and the store flag that the status
\* callback of useChainData sets (part_023 lines 150-156).
ConnStep(call, c, pending, inflight, em, failed) ==
    /\ connCall' = call
    /\ cm' = c
    /\ handshake' = pending
    /\ fetches' = inflight
    /\ emitted' = em
    /\ failures' = failed
    /\ hook' = IF em # <<>> /\ em[Len(em)] # "tx"
               THEN [hook EXCEPT !.connected = (em[Len(em)] = "connected")]
               ELSE hook
    /\ UNCHANGED <<sim, decoded, fieldVars, feed>>

\* useStore.setSimulation(b) before the providers are set up.
SetSimulation(b) ==
    /\ ~hook.started
    /\ b # hook.isSimulation
    /\ hook' = [hook EXCEPT !.isSimulation = b]
    /\ connCall' = "setSimulation"
    /\ emitted' = <<>>
    /\ UNCHANGED <<cm, handshake, fetches, sim, failures, decoded>>
    /\ UNCHANGED <<queueVars, detVars, fieldVars, feed>>

\* setupProviders of useChainData (part_023 lines 39-166) for the chain:
\* a SimulationProvider in simulation mode, whose start() runs a first
\* tick; a ConnectionManager in live mode, with the simulation as the
\* fallback of a connect() that rejects.
SetupProviders(firstTick) ==
    /\ ~hook.started
    /\ firstTick => hook.isSimulation
    /\ connCall' = "setup"
    /\ emitted' = IF firstTick THEN <<"tx">> ELSE <<>>
    /\ Callback(firstTick)
    /\ IF hook.isSimulation
       THEN /\ sim' = [timeoutId |-> TRUE]
            /\ hook' = [hook EXCEPT !.started = TRUE, !.connected = TRUE]
            /\ UNCHANGED <<cm, handshake>>
       ELSE IF HookChain \in DOMAIN CHAINS
            THEN /\ cm' = connect(cm).cm
                 /\ handshake' = connect(cm).pending
                 /\ hook' = [hook EXCEPT !.started = TRUE,
                                         !.connected = FALSE]
                 /\ sim' = sim
            ELSE /\ sim' = [timeoutId |-> TRUE]
                 /\ hook' = [hook EXCEPT !.started = TRUE,
                                         !.connected = TRUE]
                 /\ UNCHANGED <<cm, handshake>>
    /\ UNCHANGED <<fetches, failures, decoded, fieldVars, feed>>

\* getNetwork() rejects (lines 52-55).
HandshakeFails ==
    /\ handshake
    /\ LET h == handleDisconnect(cm)
       IN  ConnStep("handshakeFails", h.cm, FALSE, fetches, h.emitted,
                    failures + Len(h.emitted))
    /\ UNCHANGED <<queueVars, detVars>>

\* getNetwork() resolves (lines 57-234).
HandshakeSucceeds ==
    /\ handshake
    /\ ConnStep("handshakeSucceeds", connected(cm), FALSE, fetches, <<>>,
                IF cm.destroyed THEN failures ELSE 0)
    /\ UNCHANGED <<queueVars, detVars>>

\* A close or error event of the WebSocket (lines 69-74).
SocketEvent ==
    /\ cm.wsHandlers
    /\ LET h == IF cm.destroyed THEN [cm |-> cm, emitted |-> <<>>]
                ELSE handleDisconnect(cm)
       IN  ConnStep("socketEvent", h.cm, handshake, fetches, h.emitted,
                    failures + Len(h.emitted))
    /\ UNCHANGED <<queueVars, detVars>>

\* A block event, up to the await of the fetch (lines 79-96).
BlockEvent ==
    /\ cm.blockListener
    /\ fetches < MaxInflight
    /\ IF cm.destroyed
       THEN ConnStep("blockEvent", cm, handshake, fetches, <<>>, failures)
       ELSE ConnStep("blockEvent", [cm EXCEPT !.receivedFirstBlock = TRUE],
                     handshake, fetches + 1,
                     IF cm.receivedFirstBlock THEN <<>> ELSE <<"connected">>,
                     failures)
    /\ UNCHANGED <<queueVars, detVars>>

\* The fetch of a block settles (lines 97-219): with transactions, or with
\* no block, no transaction or an error.
FetchSettles(withTxs) ==
    /\ fetches > 0
    /\ LET invoked == withTxs /\ ~cm.destroyed
       IN  /\ ConnStep("fetchSettles", cm, handshake, fetches - 1,
                       IF invoked THEN <<"tx">> ELSE <<>>, failures)
           /\ Callback(invoked)

\* The first-block timer fires (lines 224-234).
BlockTimeoutFires ==
    /\ cm.blockTimeoutId
    /\ LET c1 == [cm EXCEPT !.blockTimeoutId = FALSE]
           h == IF ~c1.destroyed /\ ~c1.receivedFirstBlock
                THEN handleDisconnect(c1)
                ELSE [cm |-> c1, emitted |-> <<>>]
       IN  ConnStep("blockTimeoutFires", h.cm, handshake, fetches, h.emitted,
                    failures + Len(h.emitted))
    /\ UNCHANGED <<queueVars, detVars>>

\* The reconnect timer fires (lines 251-254).
ReconnectTimerFires ==
    /\ cm.reconnectTimer # 0
    /\ LET r == connect([cm EXCEPT !.reconnectTimer = 0])
       IN  ConnStep("reconnectTimerFires", r.cm, r.pending, fetches, <<>>,
                    failures)
    /\ UNCHANGED <<queueVars, detVars>>

\* ConnectionManager.disconnect(), as cleanupAll calls it.
Disconnect ==
    /\ hook.started /\ ~hook.isSimulation
    /\ ConnStep("disconnect", disconnect(cm), handshake, fetches, <<>>,
                failures)
    /\ UNCHANGED <<queueVars, detVars>>

\* A tick of the SimulationProvider (part_010 lines 36-124).
SimTick(withTxs) ==
    /\ sim.timeoutId
    /\ connCall' = "simTick"
    /\ emitted' = IF withTxs THEN <<"tx">> ELSE <<>>
    /\ Callback(withTxs)
    /\ UNCHANGED <<cm, handshake, fetches, sim, hook, failures, decoded,
                   fieldVars, feed>>

\* SimulationProvider.stop(), as cleanupAll calls it.
SimStop ==
    /\ hook.started /\ hook.isSimulation
    /\ connCall' = "stop"
    /\ sim' = stop(sim)
    /\ emitted' = <<>>
    /\ UNCHANGED <<cm, handshake, fetches, hook, failures, decoded>>
    /\ UNCHANGED <<queueVars, detVars, fieldVars, feed>>

\* The providers of a chain before the effect runs.
NoProviders ==
    [provider |-> FALSE, destroyed |-> FALSE, receivedFirstBlock |-> FALSE,
     handshake |-> FALSE, blockListener |-> FALSE, timeout |-> FALSE,
     fetches |-> 0, sims |-> 0, connected |-> FALSE]

FeedInit ==
    feed = [started |-> FALSE, cleaned |-> FALSE, call |-> "init",
            delivered |-> <<>>, chain |-> [c \in ChainIds |-> NoProviders]]

ConnInit ==
    /\ cm = [provider |-> FALSE, destroyed |-> FALSE,
             receivedFirstBlock |-> FALSE, reconnectAttempts |-> 0,
             reconnectTimer |-> 0, blockTimeoutId |-> FALSE,
             wsHandlers |-> FALSE, blockListener |-> FALSE]
    /\ handshake = FALSE
    /\ fetches = 0
    /\ sim = [timeoutId |-> FALSE]
    /\ hook = [isSimulation |-> TRUE, started |-> FALSE, connected |-> FALSE]
    /\ connCall = "init"
    /\ emitted = <<>>
    /\ failures = 0
    /\ decoded = [block |-> [transactions |-> <<>>, logs |-> <<>>],
                  txs |-> <<>>, raised |-> FALSE]
    /\ FeedInit

\* What the event loop runs once it is due: timers and settled promises.
Due ==
    \/ HandshakeFails
    \/ HandshakeSucceeds
    \/ \E withTxs \in BOOLEAN : FetchSettles(withTxs)
    \/ BlockTimeoutFires
    \/ ReconnectTimerFires
    \/ \E withTxs \in BOOLEAN : SimTick(withTxs)

ConnNext ==
    \/ \E b \in BOOLEAN : SetSimulation(b)
    \/ \E firstTick \in BOOLEAN : SetupProviders(firstTick)
    \/ SocketEvent
    \/ BlockEvent
    \/ Disconnect
    \/ SimStop
    \/ Due

\* ------------------------------------------------------------------------
\* The providers of one chain under the useChainData of
\* src/src/hooks/useChainData.ts, with the ConnectionManager of
\* src/src/data/ConnectionManager.ts and the SimulationProvider. The
\* transaction callback of a provider is recorded in `delivered`, not run:
\* what a batch does to the detector and the queue is not part of this
\* state.
\* ------------------------------------------------------------------------
\* Object.keys(CHAINS): the chains of the model, in the order of the file.
ChainKeys == <<"ethereum", "polygon", "arbitrum">>

\* new SimulationProvider(chainId, handleRawTransactions) and start(), n
\* times, on the providers p of a chain: each SimulationProvider sets its
\* timer (its first tick invokes the callback); the hook sets
\* chainConnected.
SimsStarted(p, n) == [p EXCEPT !.sims = @ + n, !.connected = TRUE]

\* What a call on the providers of chain c leaves: p for the chain, and the
\* providers whose transaction callback the call invoked, in order.
FeedStep(call, c, p, sources) ==
    /\ feed' = [feed EXCEPT
                   !.call = call,
                   !.chain[c] = p,
                   !.delivered = [i \in DOMAIN sources |->
                                     [chainId |-> c, source |-> sources[i]]]]
    /\ UNCHANGED <<cm, handshake, fetches, sim, hook, connCall, emitted,
                   failures, decoded>>
    /\ UNCHANGED <<queueVars, detVars, fieldVars>>

\* The effect of useChainData (useChainData.ts lines 16-73) for every
\* chain: a SimulationProvider in simulation mode; in live mode a
\* ConnectionManager and connect() up to its await (ConnectionManager.ts
\* lines 25-33).
FeedSetup(isSimulation) ==
    /\ ~feed.started
    /\ feed' = [feed EXCEPT
                   !.started = TRUE,
                   !.call = "setup",
                   !.chain = [c \in ChainIds |->
                       IF isSimulation THEN SimsStarted(feed.chain[c], 1)
                       ELSE [feed.chain[c] EXCEPT !.provider = TRUE,
                                                  !.handshake = TRUE]],
                   !.delivered = IF isSimulation
                                 THEN [i \in DOMAIN ChainKeys |->
                                          [chainId |-> ChainKeys[i],
                                           source |-> "sim"]]
                                 ELSE <<>>]
    /\ UNCHANGED <<cm, handshake, fetches, sim, hook, connCall, emitted,
                   failures, decoded>>
    /\ UNCHANGED <<queueVars, detVars, fieldVars>>

\* getNetwork() rejects (ConnectionManager.ts lines 34-37): the status
\* callback gets 'error' and starts a simulation (useChainData.ts lines
\* 58-63), then connect() rejects and its catch starts another one (lines
\* 66-71).
FeedHandshakeFails(c) ==
    /\ feed.chain[c].handshake
    /\ FeedStep("handshakeFails", c,
                SimsStarted([feed.chain[c] EXCEPT !.handshake = FALSE], 2),
                <<"sim", "sim">>)

\* getNetwork() resolves (ConnectionManager.ts lines 38-81): the block
\* listener and the first-block timer are set; on a manager disconnected
\* meanwhile this.provider is null, connect() rejects and the catch of the
\* hook starts a simulation.
FeedHandshakeSucceeds(c) ==
    /\ feed.chain[c].handshake
    /\ LET p == [feed.chain[c] EXCEPT !.handshake = FALSE]
       IN  IF p.provider
           THEN FeedStep("handshakeSucceeds", c,
                         [p EXCEPT !.blockListener = TRUE, !.timeout = TRUE],
                         <<>>)
           ELSE FeedStep("handshakeSucceeds", c, SimsStarted(p, 1),
                         <<"sim">>)

\* A block event, up to the await of getBlock (lines 38-47).
FeedBlockEvent(c) ==
    /\ feed.chain[c].blockListener
    /\ feed.chain[c].fetches < MaxInflight
    /\ FeedStep("blockEvent", c,
                IF feed.chain[c].destroyed THEN feed.chain[c]
                ELSE [feed.chain[c] EXCEPT !.receivedFirstBlock = TRUE,
                                           !.connected = TRUE,
                                           !.fetches = @ + 1],
                <<>>)

\* getBlock settles (lines 47-71): with transactions, or with no block, no
\* transaction or an error.
FeedFetchSettles(c, withTxs) ==
    /\ feed.chain[c].fetches > 0
    /\ FeedStep("fetchSettles", c, [feed.chain[c] EXCEPT !.fetches = @ - 1],
                IF withTxs /\ ~feed.chain[c].destroyed THEN <<"conn">>
                ELSE <<>>)

\* The first-block timer fires (lines 74-81); nothing clears it. The status
\* callback starts a simulation on 'error'.
FeedTimeoutFires(c) ==
    /\ feed.chain[c].timeout
    /\ LET p == [feed.chain[c] EXCEPT !.timeout = FALSE]
       IN  IF ~p.destroyed /\ ~p.receivedFirstBlock
           THEN FeedStep("timeoutFires", c, SimsStarted(p, 1), <<"sim">>)
           ELSE FeedStep("timeoutFires", c, p, <<>>)

\* A tick of one of the running SimulationProviders of the chain.
FeedSimTick(c) ==
    /\ feed.chain[c].sims > 0
    /\ FeedStep("simTick", c, feed.chain[c], <<"sim">>)

\* cleanupAll (useChainData.ts lines 76-85) when the component unmounts:
\* disconnect() of every manager (ConnectionManager.ts lines 84-91), stop()
\* of every simulation started so far.
FeedCleanup ==
    /\ feed.started
    /\ ~feed.cleaned
    /\ feed' = [feed EXCEPT
                   !.cleaned = TRUE,
                   !.call = "cleanup",
                   !.delivered = <<>>,
                   !.chain = [c \in ChainIds |->
                       LET p == [feed.chain[c] EXCEPT !.sims = 0]
                       IN  IF p.provider \/ p.handshake
                           THEN [p EXCEPT !.destroyed = TRUE,
                                          !.provider = FALSE,
                                          !.blockListener = FALSE]
                           ELSE p]]
    /\ UNCHANGED <<cm, handshake, fetches, sim, hook, connCall, emitted,
                   failures, decoded>>
    /\ UNCHANGED <<queueVars, detVars, fieldVars>>

FeedNext ==
    \/ \E isSimulation \in BOOLEAN : FeedSetup(isSimulation)
    \/ \E c \in ChainIds : FeedHandshakeFails(c)
    \/ \E c \in ChainIds : FeedHandshakeSucceeds(c)
    \/ \E c \in ChainIds : FeedBlockEvent(c)
    \/ \E c \in ChainIds, withTxs \in BOOLEAN : FeedFetchSettles(c, withTxs)
    \/ \E c \in ChainIds : FeedTimeoutFires(c)
    \/ \E c \in ChainIds : FeedSimTick(c)
    \/ FeedCleanup

\* ------------------------------------------------------------------------
\* ConnectionManager: the block handler after its fetch has settled
\* (part_012 lines 97-219).
\* A block transaction is [hash, value]; a log is [topics, dataLength,
\* amount, address, transactionHash], where topics is the number of topics
\* (0 for a missing array), dataLength the length of the data string ("0x"
\* has length 2) and amount the number it encodes, in thousandths of a
\* token. A record of the batch is [hash, chainId, symbol, value], symbol ""
\* for a transaction without a token transfer.
\* ------------------------------------------------------------------------
\* The contracts of the registry, by lowercase address.
TOKEN_ADDRESSES == [ethereum |-> [weth |-> "WETH", usdc |-> "USDC"]]

\* lookupToken (tokenRegistry.ts lines 101-105): the symbol of the entry,
\* "" for null.
lookupToken(chainId, contractAddress) ==
    IF chainId \in DOMAIN TOKEN_ADDRESSES
       /\ contractAddress \in DOMAIN TOKEN_ADDRESSES[chainId]
    THEN TOKEN_ADDRESSES[chainId][contractAddress]
    ELSE ""

\* Variant of the guards: the number of topics is not looked at.
skipsLogByData(log) == log.dataLength <= 2

\* The guards on the shape of a log (lines 120-123).
skipsLog(log) == log.topics < 3 \/ log.dataLength <= 2

\* What throws in the decoding of a log (lines 133-135): slice on a topic
\* that is not there, BigInt on a string without digits.
DecodeThrows(log) == log.topics < 3 \/ log.dataLength <= 2

\* The first transaction of the map with this hash and no token transfer
\* yet (lines 148-149); 0 if there is none. A map holds one entry per hash.
ExistingTx(txMap, hash) ==
    IF \E k \in DOMAIN txMap : txMap[k].hash = hash /\ txMap[k].symbol = ""
    THEN CHOOSE k \in DOMAIN txMap : txMap[k].hash = hash /\ txMap[k].symbol = ""
    ELSE 0

\* One pass of the loop over the logs (lines 119-167) on st = [txMap,
\* seen, tokenOnlyTxs, raised], raised once an exception has left the loop.
DecodeLog(chainId, log, st) ==
    LET token == lookupToken(chainId, log.address)
        dedupKey == <<log.transactionHash, log.address>>
        k == ExistingTx(st.txMap, log.transactionHash)
    IN  IF st.raised THEN st
        ELSE IF skipsLog(log) THEN st
        ELSE IF token = "" THEN st
        ELSE IF dedupKey \in st.seen THEN st
        ELSE IF DecodeThrows(log)
             THEN [st EXCEPT !.seen = @ \cup {dedupKey}, !.raised = TRUE]
        ELSE IF k # 0
             THEN [st EXCEPT !.seen = @ \cup {dedupKey},
                             !.txMap[k].symbol = token,
                             !.txMap[k].value = log.amount]
        ELSE [st EXCEPT !.seen = @ \cup {dedupKey},
                        !.tokenOnlyTxs = Append(@,
                            [hash |-> log.transactionHash,
                             chainId |-> chainId,
                             symbol |-> token,
                             value |-> log.amount])]

\* The loop over the logs, in order. The sequence is halved so that the
\* evaluation stays shallow.
RECURSIVE DecodeLogs(_, _, _)
DecodeLogs(chainId, logs0, st0) ==
    \* the arguments are bound to their values, once per pass
    CHOOSE r \in {
        IF logs = <<>> THEN st
        ELSE IF Len(logs) = 1 THEN DecodeLog(chainId, logs[1], st)
        ELSE LET mid == Len(logs) \div 2
             IN  DecodeLogs(chainId, SubSeq(logs, mid + 1, Len(logs)),
                            DecodeLogs(chainId, SubSeq(logs, 1, mid), st))
        : logs \in {logs0}, st \in {st0}} : TRUE

\* The map of the block's transactions (lines 100-113) and the logs
\* decoded into it (lines 115-167).
decodeParts(chainId, block) ==
    LET txMap == [k \in DOMAIN block.transactions |->
                     [hash |-> block.transactions[k].hash,
                      chainId |-> chainId, symbol |-> "",
                      value |-> block.transactions[k].value]]
    IN  DecodeLogs(chainId, block.logs,
                   [txMap |-> txMap, seen |-> {},
                    tokenOnlyTxs |-> <<>>, raised |-> FALSE])

MAX_TOKEN_TXS_PER_BLOCK == 40
MAX_NATIVE_TXS_PER_BLOCK == 50

\* [rest[i], rest[j]] = [rest[j], rest[i]] on 0-based indices.
Swapped(rest, i, j) ==
    [rest EXCEPT ![i + 1] = rest[j + 1], ![j + 1] = rest[i + 1]]

\* The partial Fisher-Yates loop (lines 186-189 and 203-206) from index i
\* down; draw[i] is the j that Math.random() gives at index i.
RECURSIVE Shuffle(_, _, _, _)
Shuffle(rest0, i0, count, draw) ==
    CHOOSE r \in {
        IF i > 0 /\ Len(rest) - i <= count
        THEN Shuffle(Swapped(rest, i, draw[i]), i - 1, count, draw)
        ELSE rest
        : rest \in {rest0}, i \in {i0}} : TRUE

\* The loop, then rest.slice(0, Math.max(0, count)).
Sample(rest, count, draw) ==
    SubSeq(Shuffle(rest, Len(rest) - 1, count, draw), 1,
           Min(Max(0, count), Len(rest)))

\* The cap on the token-only transactions (lines 169-191).
capTokenTxs(chainId, tokenOnlyTxs, draw) ==
    IF Len(tokenOnlyTxs) > MAX_TOKEN_TXS_PER_BLOCK
    THEN LET isWhaleSized(tx) ==
                 tx.value >= getTokenWhaleThreshold(chainId, tx.symbol)
             whales == SelectSeq(tokenOnlyTxs, isWhaleSized)
             rest == SelectSeq(tokenOnlyTxs, LAMBDA tx : ~isWhaleSized(tx))
             remaining == MAX_TOKEN_TXS_PER_BLOCK - Len(whales)
         IN  whales \o Sample(rest, remaining, draw)
    ELSE tokenOnlyTxs

\* The indices of the transactions whose native value is in vals, by
\* descending value, in block order among equal values (the sort of line
\* 197 is stable).
RECURSIVE ByValueDesc(_, _)
ByValueDesc(transactions, vals) ==
    IF vals = {} THEN <<>>
    ELSE LET v == CHOOSE x \in vals : \A y \in vals : x >= y
         IN  SelectSeq([k \in DOMAIN transactions |-> k],
                       LAMBDA k : transactions[k].value = v)
             \o ByValueDesc(transactions, vals \ {v})

\* The cap on the transactions of the map (lines 193-208): entry k of
\* txMap is transaction k of the block, whose native value is the sort key.
capNativeTxs(txMap, transactions, draw) ==
    IF Len(txMap) > MAX_NATIVE_TXS_PER_BLOCK
    THEN LET order == ByValueDesc(transactions,
                          {transactions[k].value : k \in DOMAIN transactions})
             nativeTxs == [n \in DOMAIN order |-> txMap[order[n]]]
             \* Math.ceil(MAX_NATIVE_TXS_PER_BLOCK * 0.2)
             keepTop == (MAX_NATIVE_TXS_PER_BLOCK * 2 + 9) \div 10
             top == SubSeq(nativeTxs, 1, keepTop)
             rest == SubSeq(nativeTxs, keepTop + 1, Len(nativeTxs))
             sampleCount == MAX_NATIVE_TXS_PER_BLOCK - keepTop
         IN  top \o Sample(rest, sampleCount, draw)
    ELSE txMap

\* The block handler after the fetch (lines 97-210): the map, the logs
\* decoded into it, the two caps, and the batch (line 210).
decodeBlock(chainId, block, draw) ==
    LET st == decodeParts(chainId, block)
    IN  [block |-> block,
         txs |-> IF st.raised THEN <<>>
                 ELSE capNativeTxs(st.txMap, block.transactions, draw)
                      \o capTokenTxs(chainId, st.tokenOnlyTxs, draw),
         raised |-> st.raised]

\* A record of the batch as handleRawTransactions reads it.
AsRaw(txs) ==
    [k \in DOMAIN txs |-> [chainId |-> txs[k].chainId,
                           symbol |-> txs[k].symbol, value |-> txs[k].value]]

\* The fetch of a block settles with the block and its logs: the handler
\* returns if the manager was destroyed meanwhile, builds the batch with
\* the draws of Math.random(), and invokes the callback if the batch is not
\* empty; an exception is caught and logged (lines 215-219).
FetchDecodes(block, draw) ==
    /\ fetches > 0
    /\ \E d \in {decodeBlock(HookChain, block, draw)} :
       \E invoked \in {~cm.destroyed /\ ~d.raised /\ d.txs # <<>>} :
          /\ connCall' = "fetchDecodes"
          /\ fetches' = fetches - 1
          /\ emitted' = IF invoked THEN <<"tx">> ELSE <<>>
          /\ decoded' = IF cm.destroyed THEN [d EXCEPT !.txs = <<>>] ELSE d
          /\ IF invoked THEN Handled(AsRaw(d.txs), COOLDOWN_MS)
             ELSE UNCHANGED <<queueVars, detVars>>
          /\ UNCHANGED <<cm, handshake, sim, hook, failures, fieldVars, feed>>

\* Logs: a transfer of 1 WETH, of 6 WETH and of 10 USDC, a transfer with
\* two topics only, an NFT transfer (four topics, no data), a log with no
\* topics array and no data, and a transfer of a token the registry does
\* not list.
Weth(hash, amount) ==
    [topics |-> 3, dataLength |-> 66, amount |-> amount, address |-> "weth",
     transactionHash |-> hash]
Usdc(hash) ==
    [topics |-> 3, dataLength |-> 66, amount |-> 10 * Milli,
     address |-> "usdc", transactionHash |-> hash]
TwoTopics(hash) ==
    [topics |-> 2, dataLength |-> 66, amount |-> 2 * Milli, address |-> "weth",
     transactionHash |-> hash]
Nft(hash) ==
    [topics |-> 4, dataLength |-> 2, amount |-> 0, address |-> "weth",
     transactionHash |-> hash]
Bare(hash) ==
    [topics |-> 0, dataLength |-> 0, amount |-> 0, address |-> "usdc",
     transactionHash |-> hash]
Unlisted(hash) ==
    [topics |-> 3, dataLength |-> 66, amount |-> 7 * Milli, address |-> "shib",
     transactionHash |-> hash]

Native(hash) == [hash |-> hash, value |-> 3 * Milli]

Blocks ==
    {[transactions |-> <<Native(1)>>, logs |-> <<TwoTopics(1)>>],
     [transactions |-> <<Native(1)>>,
      logs |-> <<Nft(1), Unlisted(1), TwoTopics(1), Weth(1, Milli)>>],
     [transactions |-> <<>>, logs |-> <<Unlisted(9), Usdc(9)>>],
     [transactions |-> <<Native(1), Native(2)>>,
      logs |-> <<Weth(1, 6 * Milli), TwoTopics(2), Usdc(1), Weth(1, Milli)>>],
     [transactions |-> <<>>, logs |-> <<Nft(3), Unlisted(3), Bare(3)>>],
     [transactions |-> <<Native(4)>>, logs |-> <<>>]}

\* Math.random() draws: at index i the loop draws j, at every other index
\* the index itself, which leaves the element in place.
Draw(i, j) == [k \in 0..MAX_NATIVE_TXS_PER_BLOCK |-> IF k = i THEN j ELSE k]
NoSwap == Draw(0, 0)

\* These blocks are below the caps: no draw is made.
BlockNext ==
    \/ SetSimulation(FALSE)
    \/ SetupProviders(FALSE)
    \/ HandshakeSucceeds
    \/ BlockEvent
    \/ Disconnect
    \/ \E block \in Blocks : FetchDecodes(block, NoSwap)

\* Blocks above a cap. 51 transactions: ten of 9 units, 41 of 3 units, and
\* transaction 11, the first of these, transfers 6 WETH. 41 token-only
\* transfers: 6 WETH, then 40 of 1 WETH.
BigNativeBlock ==
    [transactions |-> [k \in 1..(MAX_NATIVE_TXS_PER_BLOCK + 1) |->
                          IF k <= 10 THEN [hash |-> k, value |-> 9 * Milli]
                          ELSE Native(k)],
     logs |-> <<Weth(11, 6 * Milli)>>]
BigTokenBlock ==
    [transactions |-> <<>>,
     logs |-> [k \in 1..(MAX_TOKEN_TXS_PER_BLOCK + 1) |->
                  Weth(100 + k, IF k = 1 THEN 6 * Milli ELSE Milli)]]
BigBlocks == {BigNativeBlock, BigTokenBlock}

\* The first draw of the loop over the 41 sampled native transactions and
\* over the 40 sampled token transactions: the last index itself, or 0.
DrawChoices == {NoSwap, Draw(40, 0), Draw(39, 0)}

SampleNext ==
    \/ SetSimulation(FALSE)
    \/ SetupProviders(FALSE)
    \/ HandshakeSucceeds
    \/ BlockEvent
    \/ Disconnect
    \/ \E block \in BigBlocks, draw \in DrawChoices :
          FetchDecodes(block, draw)

\* ------------------------------------------------------------------------
\* ParticleField: one frame (useFrame, ParticleField.tsx lines 223-402)
\* The frame time delta is in milliseconds. No block pulse is queued in
\* these frames, so drainBlockPulses('particleNudge') (line 321) returns
\* nothing and the block-pulse nudge (lines 320-372), which changes
\* velocities of particles near a pulse, does nothing; the whale event
\* queued for the camera (lines 308-315) leaves no trace here.
\* ------------------------------------------------------------------------
\* SPREAD_WINDOW in milliseconds, MIN_DRAIN_RATE per second.
SPREAD_WINDOW == 500
SPAWN_RADIUS == 35000
MIN_DRAIN_RATE == 2
MAX_PER_FRAME(lowEnd) == IF lowEnd THEN 8 ELSE 12

\* Frames over a run.
MaxFrames == 3

\* CHAIN_PERSONALITIES (chainPersonalities.ts): glowIntensity in Scale
\* units, energyHalfLifeMult in thousandths.
CHAIN_PERSONALITIES ==
    [ethereum |-> [glowIntensity |-> 12000, energyHalfLifeMult |-> 1300,
                   dampingMultiplier |-> 800, spawnSpread |-> 10000],
     polygon  |-> [glowIntensity |-> 9000, energyHalfLifeMult |-> 900,
                   dampingMultiplier |-> 1200, spawnSpread |-> 11000],
     arbitrum |-> [glowIntensity |-> 8500, energyHalfLifeMult |-> 800,
                   dampingMultiplier |-> 1400, spawnSpread |-> 12000]]

\* The centres computeCenters gives the chains (chains.ts lines 170-193):
\* seven chains on a circle of radius 5.6, rounded to a tenth.
chainCenter ==
    [ethereum |-> <<0, 56000, 0>>, polygon |-> <<-44000, 35000, 0>>,
     arbitrum |-> <<-55000, -12000, 0>>]

\* Math.ceil(a / b) for a >= 0 and b > 0.
CeilDiv(a, b) == (a + b - 1) \div b

\* Variant of the drain count: rounded down instead of up.
spawnsThisFrameFloor(queueSize, delta, lowEnd) ==
    LET targetRate == Max((queueSize * 1000) \div SPREAD_WINDOW, MIN_DRAIN_RATE)
    IN  Min((targetRate * delta) \div 1000, MAX_PER_FRAME(lowEnd))

\* The drain count of a frame (lines 237-239).
spawnsThisFrame(queueSize, delta, lowEnd) ==
    LET targetRate == Max((queueSize * 1000) \div SPREAD_WINDOW, MIN_DRAIN_RATE)
    IN  Min(CeilDiv(targetRate * delta, 1000), MAX_PER_FRAME(lowEnd))

\* The chain and token filters (lines 242-246); a queued transaction has
\* no tokenInfo, so its symbol is the native currency of its chain.
Passes(tx, f) ==
    LET symbol == CHAINS[tx.chainId].nativeCurrency
    IN  /\ tx.chainId \in f.enabledChains
        /\ symbol # "" => symbol \in f.enabledTokens

\* The spawn configuration of a transaction (lines 247-300), for
\* visual.size = 0 and the shortest whale life; the life of a non-whale is
\* drawn by the frame. Every other draw of Math.random() is 0.5: theta is
\* pi, phi is pi / 2, r is (1 + 0.5 * SPAWN_RADIUS) * spawnSpread, so the
\* position is the centre moved by -r along x, and the velocity is 0.
ConfigOf(tx, f) ==
    LET personality == CHAIN_PERSONALITIES[tx.chainId]
        r == Mul(Scale + SPAWN_RADIUS \div 2, personality.spawnSpread)
    IN  [x |-> chainCenter[tx.chainId][1] - r,
         y |-> chainCenter[tx.chainId][2],
         z |-> chainCenter[tx.chainId][3],
         vx |-> 0, vy |-> 0, vz |-> 0,
         dampingMult |-> personality.dampingMultiplier,
         isWhale |-> tx.isWhale,
         maxAge |-> IF tx.isWhale THEN 8000 ELSE f.maxAge,
         size |-> Mul(IF tx.isWhale THEN 20000 ELSE 3000,
                      personality.glowIntensity),
         energyHalfLifeMult |-> personality.energyHalfLifeMult,
         hash |-> tx.hash,
         chainId |-> tx.chainId]

\* The loop over the drained batch (lines 241-316);
\* st = [particles, updated, spawned].
RECURSIVE SpawnBatch(_, _, _)
SpawnBatch(st0, batch0, f) ==
    \* the arguments are bound to their values, once per pass
    CHOOSE r \in {
        IF batch = <<>> THEN st
        ELSE LET tx == Head(batch)
                 config == ConfigOf(tx, f)
                 idx == SpawnIndex(st.particles, config)
                 p == [Spawned(st.particles[idx], config) EXCEPT
                         !.energy = IF tx.isWhale THEN 15000
                                    ELSE 6000 + Mul(f.intensity, 4000)]
             IN  IF ~Passes(tx, f) THEN SpawnBatch(st, Tail(batch), f)
                 ELSE SpawnBatch([particles |-> [st.particles EXCEPT ![idx] = p],
                                  updated |-> [st.updated EXCEPT ![idx] = FALSE],
                                  spawned |-> st.spawned + 1],
                                 Tail(batch), f)
        : st \in {st0}, batch \in {batch0}} : TRUE

\* Variant of the update pass: not run before the buffers are written.
UpdateAllLate(st, dt) == st

\* The loop of ParticlePool.update over the slots (part_009 lines 196-307);
\* st = [particles, updated, spawned], where updated marks the slots whose
\* particle went through the loop since it was spawned.
UpdateAll(st, dt) ==
    [st EXCEPT
       !.particles = Updated(st.particles, dt),
       !.updated = [i \in Slots |-> st.particles[i].active \/ st.updated[i]]]

\* ParticlePool.writeBuffers (part_009 lines 358-389). The output arrays
\* are pre-sized; the model keeps the part of them that the call writes.
\* Variant of the loop: an inactive slot is written too.
RECURSIVE WriteLoopAll(_, _, _)
WriteLoopAll(ps, i0, w0) ==
    CHOOSE r \in {
        IF i >= Capacity THEN w
        ELSE WriteLoopAll(ps, i + 1,
                 [idx |-> w.idx + 1,
                  indexMap |-> Append(w.indexMap, i),
                  sizes |-> Append(w.sizes, ps[i].size),
                  opacities |-> Append(w.opacities, ps[i].opacity),
                  energies |-> Append(w.energies, ps[i].energy)])
        : i \in {i0}, w \in {w0}} : TRUE

\* The loop over the slots from slot i0 on (lines 370-387); w holds the
\* output index idx, the index map and the arrays written so far.
RECURSIVE WriteLoop(_, _, _)
WriteLoop(ps, i0, w0) ==
    \* the arguments are bound to their values, once per pass
    CHOOSE r \in {
        IF i >= Capacity THEN w
        ELSE IF ~ps[i].active THEN WriteLoop(ps, i + 1, w)
        ELSE WriteLoop(ps, i + 1,
                 [idx |-> w.idx + 1,
                  indexMap |-> Append(w.indexMap, i),
                  sizes |-> Append(w.sizes, ps[i].size),
                  opacities |-> Append(w.opacities, ps[i].opacity),
                  energies |-> Append(w.energies, ps[i].energy)])
        : i \in {i0}, w \in {w0}} : TRUE

\* idx = 0 and indexMap.length = 0 (lines 367-368), then the loop; the
\* field idx of the result is the returned count.
writeBuffers(ps) ==
    WriteLoop(ps, 0, [idx |-> 0, indexMap |-> <<>>, sizes |-> <<>>,
                      opacities |-> <<>>, energies |-> <<>>])

\* The smoothed transition opacity (lines 228-230).
TransitionOpacity(f) ==
    LET targetOpacity == IF f.transitioning THEN 0 ELSE Scale
    IN  frame.transitionOpacity
          + Mul(targetOpacity - frame.transitionOpacity,
                Min(f.delta * 5 * (Scale \div 1000), Scale))

\* Focus dimming and transition opacity on the written buffers
\* (lines 384-396).
Dimmed(ps, w, f, tOp) ==
    IF f.focusedChain # "" \/ tOp < 9900
    THEN LET other(k) == f.focusedChain # "" /\
                         ps[w.indexMap[k]].chainId # f.focusedChain
         IN  [w EXCEPT
                !.opacities = [k \in DOMAIN w.indexMap |->
                    Mul(IF other(k) THEN Mul(w.opacities[k], 1500)
                        ELSE w.opacities[k], tOp)],
                !.sizes = [k \in DOMAIN w.indexMap |->
                    IF other(k) THEN Mul(w.sizes[k], 6000) ELSE w.sizes[k]]]
    ELSE w

\* One call of the useFrame callback with the inputs f = [delta,
\* enabledChains, enabledTokens, focusedChain, transitioning, maxAge,
\* intensity]: drain, spawn, update, writeBuffers, dimming. The call
\* counters stop at their bounds.
Framed(f) ==
    \E count \in {spawnsThisFrame(size, f.delta, frame.lowEnd)} :
    \E st \in {DrainResult(count)} :
    \E sp \in {SpawnBatch([particles |-> particles, updated |-> frame.updated,
                           spawned |-> 0], st.result, f)} :
    \E up \in {UpdateAll(sp, f.delta)} :
    \E ps \in {up.particles} :
    \E tOp \in {TransitionOpacity(f)} :
    \E w \in {Dimmed(ps, writeBuffers(ps), f, tOp)} :
        /\ Drained(count, st)
        /\ calls' = Min(calls + 1, MaxCalls)
        /\ particles' = ps
        /\ activeCount' = Cardinality(ActiveSlots(ps))
        /\ poolCall' = [op |-> "frame", config |-> <<>>, dt |-> f.delta,
                        idx |-> -1, full |-> FALSE]
        /\ poolCalls' = Min(poolCalls + 1, MaxPoolCalls)
        /\ UNCHANGED nextSpawn
        /\ pulses' = Drawn(pulses, "particleNudge")
        /\ frame' = [frame EXCEPT
                       !.frames = Min(@ + 1, MaxFrames),
                       !.transitionOpacity = tOp,
                       !.written = w.idx,
                       !.indexMap = w.indexMap,
                       !.sizes = w.sizes,
                       !.opacities = w.opacities,
                       !.energies = w.energies,
                       !.updated = up.updated,
                       !.input = f,
                       !.queueSize = size,
                       !.count = count,
                       !.drained = st.result,
                       !.spawned = sp.spawned]

\* The inputs of no frame yet.
AllSymbols == {CHAINS[c].nativeCurrency : c \in ChainIds}
NoFrame ==
    [delta |-> 0, enabledChains |-> ChainIds, enabledTokens |-> AllSymbols,
     focusedChain |-> "", transitioning |-> FALSE, maxAge |-> 3000,
     intensity |-> 0]

Tick(f) ==
    /\ frame.mounted
    /\ frame.frames < MaxFrames
    /\ calls < MaxCalls
    /\ Framed(f)
    /\ UNCHANGED <<batchVars, connVars>>

\* The component mounts on a device: IS_LOW_END (lines 16-18) is fixed and
\* the pool and the index map are created (lines 39-40).
Mount(lowEnd) ==
    /\ ~frame.mounted
    /\ frame' = [frame EXCEPT !.mounted = TRUE, !.lowEnd = lowEnd]
    /\ UNCHANGED <<queueVars, poolVars, detVars, connVars>>

FrameInit ==
    frame = [mounted |-> FALSE, lowEnd |-> FALSE, frames |-> 0,
             transitionOpacity |-> Scale, written |-> 0,
             indexMap |-> <<>>, sizes |-> <<>>,
             opacities |-> <<>>, energies |-> <<>>,
             updated |-> [i \in Slots |-> FALSE], input |-> NoFrame,
             queueSize |-> 0, count |-> 0, drained |-> <<>>, spawned |-> 0]

\* Frames: a usual one, a very short one, a stalled one with a chain
\* filtered out and another in focus, one with no time elapsed, a long
\* pause during a transition.
Frames ==
    {[delta |-> 16, enabledChains |-> ChainIds, enabledTokens |-> AllSymbols,
      focusedChain |-> "", transitioning |-> FALSE, maxAge |-> 3000,
      intensity |-> 0],
     [delta |-> 1, enabledChains |-> ChainIds, enabledTokens |-> AllSymbols,
      focusedChain |-> "", transitioning |-> FALSE, maxAge |-> 6000,
      intensity |-> Scale],
     [delta |-> 1000, enabledChains |-> ChainIds \ {"polygon"},
      enabledTokens |-> AllSymbols, focusedChain |-> "polygon",
      transitioning |-> FALSE, maxAge |-> 6000, intensity |-> Scale],
     [delta |-> 0, enabledChains |-> ChainIds, enabledTokens |-> AllSymbols,
      focusedChain |-> "", transitioning |-> FALSE, maxAge |-> 3000,
      intensity |-> 0],
     [delta |-> 2500, enabledChains |-> ChainIds, enabledTokens |-> {"ETH"},
      focusedChain |-> "", transitioning |-> TRUE, maxAge |-> 6000,
      intensity |-> Scale]}

\* Batches for the frames: single transactions, and a burst longer than a
\* frame can drain.
FrameShapes ==
    {Burst("polygon", FALSE, 1), Burst("ethereum", TRUE, 1),
     Burst("ethereum", FALSE, 13)}

FrameNext ==
    \/ \E lowEnd \in BOOLEAN : Mount(lowEnd)
    \/ \E shape \in FrameShapes : Fits(shape, MaxBurstPushed) /\ Push(shape)
    \/ \E f \in Frames : Tick(f)

\* ------------------------------------------------------------------------
\* A sustained flood of whales on one chain. Serial numbers are reused
\* once their transaction has left the queue: whales take 1..FloodSerials
\* in turn, the one non-whale queued at a time takes 0.
\* ------------------------------------------------------------------------
FloodChain == "ethereum"
FloodSerials == 72
\* Transactions queued at once.
MaxFlood == 61

FloodStamp(shape) ==
    [i \in DOMAIN shape |->
        [chainId |-> shape[i].chainId,
         isWhale |-> shape[i].isWhale,
         hash |-> IF shape[i].isWhale
                  THEN ((nextHash[FloodChain] + i - 2) % FloodSerials) + 1
                  ELSE 0]]

InQueue(c, h) ==
    c \in DOMAIN chains /\ \E i \in DOMAIN chains[c] : chains[c][i].hash = h

FloodPush(shape) ==
    /\ size + Len(shape) <= MaxFlood
    /\ shape[1].isWhale \/ ~InQueue(FloodChain, 0)
    /\ \E txs \in {FloodStamp(shape)} :
       \E st \in {PushResult(txs)} :
          /\ chains' = st.chains
          /\ chainOrder' = st.chainOrder
          /\ nextHash' = [nextHash EXCEPT ![FloodChain] =
                IF shape[1].isWhale
                THEN ((@ + Len(shape) - 1) % FloodSerials) + 1 ELSE @]
          /\ lastCall' = [op |-> "push", txs |-> txs, count |-> 0,
                          trimmed |-> Overflowing(txs)]
          /\ result' = <<>>
          /\ calls' = Min(calls + 1, MaxCalls)
          /\ UNCHANGED <<roundRobinIdx, lastDrained, since, stayed>>
    /\ UNCHANGED notQueueVars

\* The frame of the flood: nothing filtered, and a frame time by which
\* every particle of the frame before has expired.
FloodFrame ==
    [delta |-> 8000, enabledChains |-> ChainIds, enabledTokens |-> AllSymbols,
     focusedChain |-> "", transitioning |-> FALSE, maxAge |-> 3000,
     intensity |-> 0]

FloodTick ==
    /\ frame.mounted
    /\ Framed(FloodFrame)
    /\ UNCHANGED <<batchVars, connVars>>

FloodShapes == {Burst(FloodChain, TRUE, 12), Burst(FloodChain, FALSE, 1)}

FloodNext ==
    \/ Mount(FALSE)
    \/ \E shape \in FloodShapes : FloodPush(shape)
    \/ FloodTick

Init == QueueInit /\ PoolInit /\ DetInit /\ ConnInit /\ FrameInit
Next == QueueNext
Spec == Init /\ [][Next]_vars

SpecBurst == Init /\ [][BurstNext]_vars

SpecPool == Init /\ [][PoolNext]_vars

SpecMotion == Init /\ [][MotionNext]_vars

SpecDetector == Init /\ [][DetNext]_vars

SpecWindow == Init /\ [][WindowNext]_vars

SpecPulse == Init /\ [][PulseNext]_vars

SpecFeed == Init /\ [][FeedNext]_vars

SpecSample == Init /\ [][SampleNext]_vars

SpecActivity == Init /\ [][ActivityNext]_vars

SpecConn == Init /\ [][ConnNext]_vars

\* The event loop runs every due timer and continuation.
SpecConnFair == SpecConn /\ WF_vars(Due)

SpecBlock == Init /\ [][BlockNext]_vars

SpecFrame == Init /\ [][FrameNext]_vars

\* requestAnimationFrame keeps calling the frame callback.
SpecFlood == Init /\ [][FloodNext]_vars /\ WF_vars(FloodTick)

\* ------------------------------------------------------------------------
\* Properties of the queue
\* ------------------------------------------------------------------------
Range(s) == {s[i] : i \in DOMAIN s}

\* The step is a call of drain, respectively of push.
DrainStep == calls' = calls + 1 /\ lastCall'.op = "drain"
PushStep == calls' = calls + 1 /\ lastCall'.op = "push"

\* C1: with k chains queued and every sub-queue holding at least m items,
\* drain(k*m) returns exactly m items of each chain, whatever the position
\* of the rotation pointer and the sizes of the backlogs.
C1_DrainFairShare ==
    [][DrainStep =>
        LET k == Len(chainOrder)
            n == lastCall'.count
        IN  (k > 0 /\ n % k = 0 /\
             \A i \in 1..k : Len(chains[chainOrder[i]]) >= n \div k)
            => \A i \in 1..k :
                  Len(GroupBatch(result', chainOrder[i])) = n \div k]_vars

\* A drain of 4 over two chains that started with the pointer on the second
\* chain and left backlogs of different sizes, 2 items of each returned.
C1_Witness ==
    /\ lastCall.op = "drain" /\ lastCall.count = 4
    /\ Len(chainOrder) = 2
    /\ roundRobinIdx = 1
    /\ \A i \in 1..2 : Len(GroupBatch(result, chainOrder[i])) = 2
    /\ Len(chains[chainOrder[1]]) # Len(chains[chainOrder[2]])

\* C2: the items drained from one chain come out in the order in which they
\* were pushed for that chain, also when an overflow trim happened between
\* push and drain (serial numbers of a chain grow in push order).
C2_PerChainFifo ==
    [][DrainStep =>
        \A c \in ChainIds :
            LET items == GroupBatch(result', c)
            IN  \A i \in 1..Len(items) :
                   items[i].hash >
                     (IF i = 1 THEN lastDrained[c] ELSE items[i - 1].hash)]_vars

\* C3: a push that makes a sub-queue exceed the cap keeps every whale that
\* was in the sub-queue or in the pushed batch.
C3_TrimKeepsWhales ==
    [][PushStep =>
        \A c \in lastCall'.trimmed :
            \A tx \in Range(Appended(c, lastCall'.txs)) :
                tx.isWhale => tx \in Range(chains'[c])]_vars

\* A push has trimmed the ethereum sub-queue to 30 items, whales and
\* non-whales among them.
C3_Witness ==
    /\ lastCall.op = "push" /\ "ethereum" \in lastCall.trimmed
    /\ Len(chains["ethereum"]) = TRIM_TARGET
    /\ \E tx \in Range(chains["ethereum"]) : tx.isWhale
    /\ \E tx \in Range(chains["ethereum"]) : ~tx.isWhale

\* C4: a push that leaves a sub-queue with more than 60 items trims it to
\* exactly its W whales plus the max(30 - W, 0) most recently queued
\* non-whales, for every W including W >= 30.
C4_TrimExact ==
    [][PushStep =>
        \A c \in lastCall'.trimmed :
            LET q == Appended(c, lastCall'.txs)
                whales == SelectSeq(q, IsWhaleTx)
                normal == SelectSeq(q, IsNormalTx)
                keep == Max(TRIM_TARGET - Len(whales), 0)
                newest == SubSeq(normal, Len(normal) - keep + 1, Len(normal))
            IN  /\ Range(chains'[c]) = Range(whales) \cup Range(newest)
                /\ Len(chains'[c]) = Len(whales) + keep]_vars

\* C5: after each push no sub-queue holds more than 60 non-whale items.
C5_NormalBounded ==
    lastCall.op = "push" =>
        \A c \in DOMAIN chains : Len(SelectSeq(chains[c], IsNormalTx)) <= MAX_PER_CHAIN

\* C6 as stated: between two consecutive items drained from one chain,
\* every other chain that was non-empty during the whole interval has had
\* exactly one item drained.
C6_ExactlyOneBetween ==
    [][DrainStep => Observed(result').exact]_vars

\* C6 amended: between two consecutive items drained from one chain, every
\* other chain that was non-empty during the whole interval has had at
\* least one item drained, and exactly one if the first chain was itself
\* non-empty during the whole interval.
C6_RoundRobinBetween ==
    [][DrainStep => Observed(result').fair]_vars

\* One drain returned two items of a chain with one item of another chain
\* between them, and that other chain is still non-empty.
C6_Witness ==
    /\ lastCall.op = "drain" /\ Len(result) >= 3
    /\ result[1].chainId = result[3].chainId
    /\ result[2].chainId # result[1].chainId
    /\ chains[result[2].chainId] # <<>>
    /\ chains[result[1].chainId] # <<>>

\* C7: drain(n) returns exactly min(n, size) items and removes exactly
\* those from the heads of the sub-queues; if it returns fewer than n items
\* every sub-queue is empty afterwards.
C7_DrainTotal ==
    [][DrainStep =>
        LET n == lastCall'.count
        IN  /\ Len(result') = Min(n, size)
            /\ SizeOf(chains') = size - Len(result')
            /\ DOMAIN chains' = DOMAIN chains
            /\ \A c \in DOMAIN chains :
                  chains[c] = GroupBatch(result', c) \o chains'[c]
            /\ Len(result') < n => \A c \in DOMAIN chains' : chains'[c] = <<>>]_vars

\* A drain asked for more than the queue held and returned the items of
\* two chains.
C7_Witness ==
    /\ lastCall.op = "drain"
    /\ 0 < Len(result) /\ Len(result) < lastCall.count
    /\ \E i, j \in DOMAIN result : result[i].chainId # result[j].chainId

\* ------------------------------------------------------------------------
\* Properties of the pool
\* ------------------------------------------------------------------------
SpawnStep == poolCalls' = poolCalls + 1 /\ poolCall'.op = "spawn"

\* C8: spawning a non-whale never replaces an active whale: every entity
\* that was an active whale before the call is still present and unchanged
\* after it, also in a full pool that contains only whales.
C8_NonWhaleKeepsWhales ==
    [][(SpawnStep /\ ~poolCall'.config.isWhale) =>
        \A i \in Slots :
            (particles[i].active /\ particles[i].isWhale)
                => particles'[i] = particles[i]]_vars

\* Slots spawn may evict for this configuration, and the slot the eviction
\* policy names: the highest age/maxAge among the eligible slots, the
\* lowest index on ties, slot 0 if none is eligible.
Eligible(ps, configIsWhale) == {i \in Slots : configIsWhale \/ ~ps[i].isWhale}
MostExpired(ps, configIsWhale) ==
    LET elig == Eligible(ps, configIsWhale)
    IN  IF elig = {} THEN 0
        ELSE CHOOSE i \in elig :
                \A j \in elig :
                    \/ ps[i].age * ps[j].maxAge > ps[j].age * ps[i].maxAge
                    \/ /\ ps[i].age * ps[j].maxAge = ps[j].age * ps[i].maxAge
                       /\ i <= j

\* C9: when every slot is active, spawn overwrites the eligible slot with
\* the highest age/maxAge ratio (lowest index on ties), whale slots being
\* eligible only for a whale spawn; if no slot is eligible it overwrites
\* slot 0.
C9_EvictsMostExpired ==
    [][(SpawnStep /\ \A i \in Slots : particles[i].active) =>
        LET target == MostExpired(particles, poolCall'.config.isWhale)
        IN  /\ poolCall'.idx = target
            /\ particles'[target].hash = poolCall'.config.hash
            /\ \A i \in Slots \ {target} : particles'[i] = particles[i]]_vars

\* A spawn into a full pool replaced a slot other than slot 0 while slot 0
\* held a non-whale, i.e. the ratios decided.
C9_Witness ==
    /\ poolCall.op = "spawn" /\ poolCall.full
    /\ poolCall.idx # 0
    /\ ~particles[0].isWhale /\ particles[0].age > 0
    /\ \E i \in Slots : particles[i].isWhale

\* C10: spawn returns an index in [0, capacity) and activates only that
\* slot; with an inactive slot available it takes the lowest-index inactive
\* slot and leaves every active particle unchanged; the pool keeps its
\* capacity slots, so no more than capacity are ever active.
C10_SpawnWithinCapacity ==
    [][/\ DOMAIN particles' = Slots
       /\ Cardinality(ActiveSlots(particles')) <= Capacity
       /\ activeCount' <= Capacity
       /\ SpawnStep =>
            LET idx == poolCall'.idx
            IN  /\ idx \in Slots
                /\ particles'[idx].active
                /\ particles'[idx].hash = poolCall'.config.hash
                /\ \A i \in Slots \ {idx} : particles'[i] = particles[i]
                /\ (\E i \in Slots : ~particles[i].active) =>
                      /\ ~particles[idx].active
                      /\ \A j \in Slots : j < idx => particles[j].active]_vars

\* A spawn took inactive slot 1 while slot 0 was active and slot 2 inactive.
C10_Witness ==
    /\ poolCall.op = "spawn" /\ ~poolCall.full
    /\ poolCall.idx = 1
    /\ particles[0].active /\ particles[0].age > 0
    /\ ~particles[2].active

\* ------------------------------------------------------------------------
\* Properties of the adaptive whale detector
\* ------------------------------------------------------------------------
\* The n = min(count, WINDOW_SIZE) most recent samples of a key.
RecentSamples(key) ==
    LET all == samples[key]
        n == Min(Len(all), WINDOW_SIZE)
    IN  SubSeq(all, Len(all) - n + 1, Len(all))

\* The element at 0-based index i of the ascending sort of w: the value
\* with at most i elements below it and more than i elements not above it.
AtSortedIndex(w, i) ==
    CHOOSE v \in Range(w) :
        /\ Cardinality({j \in DOMAIN w : w[j] < v}) <= i
        /\ Cardinality({j \in DOMAIN w : w[j] <= v}) > i

P95(key) ==
    LET w == RecentSamples(key)
    IN  AtSortedIndex(w, (95 * Len(w)) \div 100)

ThresholdOf(key) == getThreshold(detector, key, whaleThresholdUsd).threshold

\* C11: with no user USD floor, the threshold of a key is its static
\* threshold while it has fewer than 20 samples, and from 20 samples on it
\* is the greater of the static threshold and twice the element at index
\* floor(0.95 n) of the sorted window of its n = min(count, 200) most recent
\* samples; so a cold key of static threshold 5 is cleared by 5.0 and not by
\* 4.999, and a key whose p95 is 8.0 is cleared by 16.0 and not by 14.999.
C11_ThresholdColdWarm ==
    whaleThresholdUsd = 0 =>
        \A key \in DetKeys :
            LET count == Len(samples[key])
                static == StaticThreshold(key)
            IN  /\ count < 20 => ThresholdOf(key) = static
                /\ count >= 20 =>
                      ThresholdOf(key) = Max(static, 2 * P95(key))
                /\ (count < 20 /\ static = 5000) =>
                      (5000 >= ThresholdOf(key) /\ 4999 < ThresholdOf(key))
                /\ (count >= 20 /\ P95(key) = 8000) =>
                      (16000 >= ThresholdOf(key) /\ 14999 < ThresholdOf(key))

\* A token key whose window has wrapped and whose p95 is 8.0: the transfer
\* of 14.999, arriving after the cooldown, was not flagged.
C11_Witness ==
    LET key == TokenKey("ethereum", "WETH")
    IN  /\ whaleThresholdUsd = 0
        /\ Len(samples[key]) > WINDOW_SIZE
        /\ P95(key) = 8000
        /\ ThresholdOf(key) = 16000
        /\ Len(decisions) = 1
        /\ decisions[1].key = key
        /\ decisions[1].value = 14999
        /\ decisions[1].at - decisions[1].last >= COOLDOWN_MS
        /\ ~decisions[1].whale

\* A step of the batch handler.
HandleStep == detCalls' = detCalls + 1 /\ decisions' # <<>>

\* The time of the last fire on the key of decision i of the new batch, as
\* the history has it: the batch's own time if an earlier call of the batch
\* fired on that key, the last fire of an earlier batch otherwise.
FireBefore(i) ==
    LET out == decisions'
    IN  IF \E j \in 1..(i - 1) :
              out[j].key = out[i].key /\ out[j].token /\ out[j].whale
        THEN out[i].at
        ELSE lastFire[out[i].key]

\* C12: an isWhale call fires iff the value reaches the key's threshold
\* when 3000 ms or more have passed since the key's last fire, and iff it
\* reaches twice the threshold when fewer have passed; lastWhaleTime becomes
\* the current time exactly when it fires; so of two fires on a key less
\* than 3000 ms apart the second has a value of at least twice the threshold.
C12_CooldownDoubles ==
    [][HandleStep =>
        \A i \in DOMAIN decisions' :
            LET d == decisions'[i]
                f == FireBefore(i)
                cooling == f # -1 /\ d.at - f < 3000
            IN  d.token =>
                /\ d.whale = (IF cooling THEN d.value >= 2 * d.threshold
                              ELSE d.value >= d.threshold)
                /\ d.lastAfter = (IF d.whale THEN d.at ELSE d.last)
                /\ (d.whale /\ cooling) => d.value >= 2 * d.threshold]_vars

\* A second fire 2999 ms after the first one on the same token key.
C12_Witness ==
    /\ Len(decisions) = 1
    /\ decisions[1].token
    /\ decisions[1].whale
    /\ decisions[1].last > 0
    /\ decisions[1].at - decisions[1].last = COOLDOWN_MS - 1
    /\ decisions[1].value >= 2 * decisions[1].threshold

\* C13: mapTransaction flags every record as the adaptive detector of its
\* detection key decides at that moment, threshold and cooldown included:
\* key chainId for a native transfer, chainId:symbol for a token transfer.
C13_FlagIsAdaptive ==
    [][HandleStep =>
        \A i \in DOMAIN decisions' :
            LET d == decisions'[i]
            IN  /\ d.key = (IF d.token THEN TokenKey("ethereum", "WETH")
                            ELSE NativeKey("ethereum"))
                /\ d.whale = d.adaptive]_vars

\* The ascending sort of the sequence w.
Sorted(w) == SortRuns(w, Range(w))

\* What getThreshold gives for the key on a fresh sort of the window after
\* the first n samples of the key: its min(n, 200) most recent samples then.
FreshThresholdAt(key, n) ==
    LET w == Sorted(SubSeq(samples[key], n - Min(n, WINDOW_SIZE) + 1, n))
        static == StaticThreshold(key)
    IN  IF n < WARM_FILL
        THEN applyUserFloor(static, key, whaleThresholdUsd)
        ELSE applyUserFloor(
                 Max(static,
                     w[Min((Len(w) * PERCENTILE_NUM) \div PERCENTILE_DEN,
                           Len(w) - 1) + 1] * PERCENTILE_MULTIPLIER),
                 key, whaleThresholdUsd)

FreshThreshold(key) == FreshThresholdAt(key, Len(samples[key]))

\* C31: the window of a key holds exactly its min(count, 200) most recent
\* samples (later samples overwrite the oldest), a cached sorted copy that
\* is not marked dirty is the sort of the current window, and getThreshold
\* returns what a fresh sort of the current window gives, in every
\* interleaving of recordValue and getThreshold calls.
C31_ThresholdFromFreshWindow ==
    /\ \A key \in DOMAIN detector :
          LET state == detector[key]
          IN  /\ state.fill = Min(Len(samples[key]), WINDOW_SIZE)
              /\ SortedWindow(state) = Sorted(RecentSamples(key))
              /\ (~state.sortDirty /\ state.fill >= WARM_FILL)
                    => state.sorted = SortedWindow(state)
    /\ \A i \in DOMAIN decisions :
          decisions[i].op = "getThreshold"
              => decisions[i].threshold = FreshThreshold(decisions[i].key)

\* The 201st sample has overwritten the oldest one, one of the ten samples
\* of 16 units among the first 200, and getThreshold gives 6 units: twice
\* the 3 units at index 190 of the fresh sort.
C31_Witness ==
    /\ Len(samples[WindowKey]) = WINDOW_SIZE + 1
    /\ samples[WindowKey][1] = 16000
    /\ samples[WindowKey][WINDOW_SIZE + 1] = 3000
    /\ Cardinality({i \in 1..WINDOW_SIZE : samples[WindowKey][i] = 16000}) = 10
    /\ ~detector[WindowKey].sortDirty
    /\ Len(detector[WindowKey].sorted) = WINDOW_SIZE
    /\ detector[WindowKey].sorted[191] = 3000
    /\ decisions = <<[op |-> "getThreshold", key |-> WindowKey, value |-> 0,
                      threshold |-> 6000]>>

\* The keys the batch just handled has called recordValue and isWhale on.
BatchKeys == {decisions[i].key : i \in DOMAIN decisions}

\* C32: the detector state is isolated per key: the recordValue and isWhale
\* calls of a batch leave every key they are not called on with the same
\* window (values, head, fill, sorted copy), the same threshold and the same
\* cooldown timestamp, and create no state for it.
C32_KeysIsolated ==
    [][HandleStep =>
        \A k \in DetKeys \ BatchKeys' :
            /\ (k \in DOMAIN detector') = (k \in DOMAIN detector)
            /\ k \in DOMAIN detector => detector'[k] = detector[k]
            /\ \A det \in {detector'}, userUsd \in {whaleThresholdUsd'} :
                  getThreshold(det, k, userUsd).threshold
                      = ThresholdOf(k)]_vars

\* A native transfer has just been recorded while the WETH key has a warm
\* window of 20 samples and the cooldown timestamp of a whale two batches
\* ago.
C32_Witness ==
    /\ BatchKeys = {NativeKey("ethereum")}
    /\ NativeKey("ethereum") \in DOMAIN detector
    /\ TokenKey("ethereum", "WETH") \in DOMAIN detector
    /\ detector[TokenKey("ethereum", "WETH")].fill = WARM_FILL
    /\ detector[TokenKey("ethereum", "WETH")].lastWhaleTime = now - 2 * COOLDOWN_MS
    /\ detector[NativeKey("ethereum")].fill = 1

\* The number, among the samples of its key, of the sample that decision i
\* of the batch just handled has recorded (a batch is on one key).
SampleNumber(i) == Len(samples[decisions[i].key]) - Len(decisions) + i

\* C33: mapTransaction records the value in the window of the key before it
\* evaluates the whale status: the threshold a token transfer is tested
\* against is the one of the window that already holds its own value, so
\* the transfer that is the 20th sample of its key is tested against the
\* warm threshold, and the transfer is a whale exactly when its amount
\* reaches that threshold, doubled during the cooldown.
C33_RecordedBeforeTested ==
    \A i \in DOMAIN decisions :
        decisions[i].token =>
            /\ decisions[i].value =
                   samples[decisions[i].key][SampleNumber(i)]
            /\ decisions[i].threshold =
                   FreshThresholdAt(decisions[i].key, SampleNumber(i))
            /\ decisions[i].whale =
                   (decisions[i].value >=
                       IF decisions[i].at - decisions[i].last < COOLDOWN_MS
                       THEN 2 * decisions[i].threshold
                       ELSE decisions[i].threshold)

\* The 20th WETH transfer, of 16 units after 19 of 3 units, has been tested
\* against twice the p95 of a window that holds it, 32 units, and is not a
\* whale; a window without it is cold, with the static threshold of 5 units.
C33_Witness ==
    /\ Len(decisions) = 1
    /\ decisions[1].token
    /\ SampleNumber(1) = WARM_FILL
    /\ decisions[1].value = 16000
    /\ decisions[1].threshold = 32000
    /\ ~decisions[1].whale
    /\ FreshThresholdAt(decisions[1].key, WARM_FILL - 1) = 5000

\* ------------------------------------------------------------------------
\* Properties of blockPulseEvents
\* ------------------------------------------------------------------------
\* C34: every event passed to queueBlockPulse is returned exactly once, in
\* the order queued, to each consumer that calls drainBlockPulses, whatever
\* the order of the consumers' first drains and the queueBlockPulse calls:
\* what a consumer that has drained was returned so far, followed by what
\* waits in its queue, is the sequence of all events queued so far.
C34_EveryPulseOnceInOrder ==
    \A c \in DOMAIN pulses.queues :
        pulses.returned[c] \o pulses.queues[c] = pulses.queued

\* ------------------------------------------------------------------------
\* Properties of the ConnectionManager
\* ------------------------------------------------------------------------
\* C14: the i-th failure in a row (handleDisconnect with the manager alive,
\* counted since the last successful handshake) schedules the i-th reconnect
\* attempt after 2000 * 2^(i-1) ms, that is 2000, 4000, 8000, 16000 and
\* 32000 ms; the failure of the fifth attempt schedules nothing.
C14_Backoff ==
    [][emitted' = <<"error">> =>
        LET i == failures'
        IN  IF i <= 5
            THEN /\ cm'.reconnectTimer = 2000 * 2 ^ (i - 1)
                 /\ cm'.reconnectTimer = <<2000, 4000, 8000, 16000, 32000>>[i]
                 /\ cm.reconnectTimer = 0
            ELSE cm'.reconnectTimer = 0 /\ ~handshake']_vars

\* The fifth reconnect attempt has just failed and nothing is scheduled.
C14_Witness ==
    /\ connCall = "handshakeFails"
    /\ emitted = <<"error">>
    /\ failures = 6
    /\ cm.reconnectAttempts = MAX_RECONNECT_ATTEMPTS
    /\ cm.reconnectTimer = 0
    /\ ~cm.destroyed

\* C15: in live mode, once the reconnect attempts of the chain are
\* exhausted a SimulationProvider is eventually running for it.
C15_FallsBackToSimulation ==
    (~hook.isSimulation /\ failures > MAX_RECONNECT_ATTEMPTS)
        ~> sim.timeoutId

\* C16: once disconnect() has returned the manager invokes neither
\* callback and has no reconnect timer and no first-block timer, whatever
\* was suspended or pending when it was called.
C16_SilentAfterDisconnect ==
    [][/\ cm.destroyed => emitted' = <<>>
       /\ cm'.destroyed => (cm'.reconnectTimer = 0 /\ ~cm'.blockTimeoutId)]_vars

\* A handshake that was pending at disconnect() has resolved afterwards.
C16_Witness ==
    /\ cm.destroyed
    /\ connCall = "handshakeSucceeds"
    /\ ~cm.provider
    /\ emitted = <<>>

\* C17: a second disconnect() (or stop()) right after the first changes
\* nothing, and neither call changes the whale detector, the activity
\* monitor or the queue.
C17_DisconnectIdempotent ==
    [][/\ connCall' = "disconnect" =>
            (disconnect(cm') = cm' /\ UNCHANGED <<queueVars, detVars>>)
       /\ connCall' = "stop" =>
            (stop(sim') = sim' /\ UNCHANGED <<queueVars, detVars>>)]_vars

\* disconnect() on a manager that had delivered transactions and was
\* reconnecting.
C17_Witness ==
    /\ connCall = "disconnect"
    /\ cm.destroyed
    /\ cm.receivedFirstBlock
    /\ handshake
    /\ detCalls > 0
    /\ activity.chains[HookChain].buckets # <<>>

\* ------------------------------------------------------------------------
\* Properties of ActivityMonitor
\* ------------------------------------------------------------------------
\* A call of getActivityLevel.
ReadStep ==
    /\ activity'.calls = activity.calls + 1
    /\ activity'.call.op = "read"

\* C39: reading the activity level changes no state: a call of
\* getActivityLevel leaves the chains and the global level of the monitor
\* as they were, returns 1 for a chain never recorded and, without a
\* chain, when no chain was ever recorded, and returns what the call
\* before it returned when that call was the same read.
C39_ReadChangesNothing ==
    [][ReadStep =>
        /\ activity'.chains = activity.chains
        /\ activity'.globalSmoothed = activity.globalSmoothed
        /\ (/\ activity'.call.chainId # ""
            /\ ~activity.chains[activity'.call.chainId].recorded)
                => activity'.call.level = Scale
        /\ (activity'.call.chainId = "" /\ Recorded(activity) = {})
                => activity'.call.level = Scale
        /\ (/\ activity.call.op = "read"
            /\ activity.call.chainId = activity'.call.chainId)
                => activity'.call.level = activity.call.level]_vars

\* C35: a ConnectionManager eventually stops retrying: in a session in
\* which, from some point on, no block arrives and the socket raises no
\* close or error event, the number of reconnect attempts scheduled is
\* bounded, so from some point on no reconnect timer is pending; also when
\* every attempt completes the handshake and the first-block timeout ends
\* it.
C35_EventuallyStopsRetrying ==
    <>[](connCall \notin {"socketEvent", "blockEvent"})
        => <>[](cm.reconnectTimer = 0)

\* The ConnectionManager of the chain can still deliver a batch.
FeedConnDelivers(c) ==
    /\ ~feed.chain[c].destroyed
    /\ feed.chain[c].blockListener \/ feed.chain[c].fetches > 0

\* C36: at most one source per chain feeds batches: never two running
\* SimulationProviders for the chain, nor a running SimulationProvider
\* together with a ConnectionManager that still delivers batches.
C36_OneSourcePerChain ==
    \A c \in ChainIds :
        /\ feed.chain[c].sims <= 1
        /\ ~(feed.chain[c].sims >= 1 /\ FeedConnDelivers(c))

\* ------------------------------------------------------------------------
\* Properties of mapTransaction
\* ------------------------------------------------------------------------
\* The ceiling of the normalisation, in thousandths of a token.
CeilingOf(d) ==
    IF d.token /\ d.key[2] \in STABLECOIN_SYMBOLS
    THEN MAX_VALUE_STABLECOIN * Milli ELSE MAX_VALUE * Milli

\* C25: for a whale size and intensity are 1; for any other transaction
\* they are pow(log(1 + value) / log(1 + ceiling), e), clamped to [0, 1],
\* with e = 0.5 for size and e = 0.4 for intensity, so both are 0 at value
\* 0 and both are 1 from the ceiling on.
C25_VisualIsClampedPower ==
    [][HandleStep =>
        \A k \in DOMAIN decisions' :
            LET d == decisions'[k]
                logNorm == logNormOf([symbol |-> IF d.token THEN d.key[2] ELSE "",
                                      value |-> d.value])
            IN  IF d.whale
                THEN d.visual.size = Scale /\ d.visual.intensity = Scale
                ELSE /\ d.visual.size = Min(PowHalf(logNorm), Scale)
                     /\ d.visual.intensity = Min(PowTwoFifths(logNorm), Scale)
                     /\ d.value = 0 =>
                           (d.visual.size = 0 /\ d.visual.intensity = 0)
                     /\ d.value >= CeilingOf(d) =>
                           (d.visual.size = Scale /\ d.visual.intensity = Scale)
    ]_vars

\* ------------------------------------------------------------------------
\* Properties of the block handler
\* ------------------------------------------------------------------------
DecodeStep == connCall' = "fetchDecodes" /\ fetches' = fetches - 1

\* A log with fewer than 3 topics, with empty data, or from a contract that
\* is not in the registry of the chain.
Dropped(log) ==
    \/ log.topics < 3
    \/ log.dataLength <= 2
    \/ log.address \notin DOMAIN TOKEN_ADDRESSES[HookChain]

\* C24: the handler of a fetched block raises no error on a log with fewer
\* than 3 topics, with empty data or from an unlisted contract, and makes
\* no record of it: the batch holds every transaction of the block and a
\* record for every other log, each token record comes from such a log,
\* and the batch is delivered to the callback when it is not empty.
C24_MalformedLogsDropped ==
    [][(DecodeStep /\ ~cm.destroyed) =>
        LET block == decoded'.block
            txs == decoded'.txs
            good == {k \in DOMAIN block.logs : ~Dropped(block.logs[k])}
        IN  /\ ~decoded'.raised
            /\ \A t \in DOMAIN block.transactions :
                  \E k \in DOMAIN txs :
                      txs[k].hash = block.transactions[t].hash
            /\ \A g \in good :
                  \E k \in DOMAIN txs :
                      /\ txs[k].hash = block.logs[g].transactionHash
                      /\ txs[k].symbol =
                            TOKEN_ADDRESSES[HookChain][block.logs[g].address]
            /\ \A k \in DOMAIN txs :
                  IF txs[k].symbol = ""
                  THEN \E t \in DOMAIN block.transactions :
                          /\ block.transactions[t].hash = txs[k].hash
                          /\ block.transactions[t].value = txs[k].value
                  ELSE \E g \in good :
                          /\ block.logs[g].transactionHash = txs[k].hash
                          /\ block.logs[g].amount = txs[k].value
                          /\ TOKEN_ADDRESSES[HookChain][block.logs[g].address]
                                = txs[k].symbol
            /\ Len(txs) <= Len(block.transactions) + Cardinality(good)
            /\ (emitted' = <<"tx">>) <=> (txs # <<>>)
            /\ txs # <<>> =>
                  (lastCall'.op = "push" /\ Len(lastCall'.txs) = Len(txs))]_vars

\* A block with a log of each of the three kinds next to a transaction and
\* its transfer of a listed token: the batch, one record carrying the
\* transfer, was delivered.
C24_Witness ==
    /\ connCall = "fetchDecodes"
    /\ emitted = <<"tx">>
    /\ \E k \in DOMAIN decoded.block.logs : decoded.block.logs[k].topics < 3
    /\ \E k \in DOMAIN decoded.block.logs : decoded.block.logs[k].dataLength <= 2
    /\ \E k \in DOMAIN decoded.block.logs : decoded.block.logs[k].address = "shib"
    /\ Len(decoded.txs) = 1
    /\ decoded.txs[1].symbol = "WETH"
    /\ Len(lastCall.txs) = 1

\* The token transfers of the last block, attached to a transaction of the
\* block or standalone, whose amount reaches the static whale threshold of
\* their token.
WhaleTransfers ==
    LET st == decodeParts(HookChain, decoded.block)
        all == st.txMap \o st.tokenOnlyTxs
    IN  {all[k] : k \in {n \in DOMAIN all :
            /\ all[n].symbol # ""
            /\ all[n].value >=
                   getTokenWhaleThreshold(HookChain, all[n].symbol)}}

\* C37: the per-block sampling never discards a whale-sized token transfer,
\* attached or standalone, also when the block exceeds the caps of 50
\* native and 40 token transactions: every such transfer of the block is in
\* the batch the handler delivers.
C37_WhaleTransfersKept ==
    decoded.txs # <<>> => \A tx \in WhaleTransfers : tx \in Range(decoded.txs)

\* ------------------------------------------------------------------------
\* Properties of ParticlePool.update
\* ------------------------------------------------------------------------
UpdateStep == poolCalls' = poolCalls + 1 /\ poolCall'.op = "update"

\* C22: energy never increases under update(dt) with dt >= 0: for every
\* entity that is active before the call, the energy after the call (the
\* whole call, attraction pass included) is at most the energy before it,
\* and it is never negative.
C22_EnergyNeverIncreases ==
    [][UpdateStep =>
        \A i \in Slots :
            particles[i].active =>
                /\ poolCall'.dt >= 0
                /\ particles'[i].hash = particles[i].hash
                /\ particles'[i].energy <= particles[i].energy
                /\ particles'[i].energy >= 0]_vars

\* An entity that is still active after updates that took its energy below
\* a third of the initial energy.
C22_Witness ==
    /\ poolCall.op = "update"
    /\ \E i \in Slots :
          /\ particles[i].active
          /\ particles[i].age >= 3000
          /\ particles[i].energy > 0
          /\ 3 * particles[i].energy < initialEnergy

\* The first parts a of an update(dt) split into update(a), update(dt - a).
Splits(dt) == {a \in {dt \div 4, dt \div 2, dt - 1} : 0 < a /\ a < dt}

\* No update applies an attraction force to slot i of the slots ps: the
\* slot holds a whale, or no slot holds an active whale (the second pass
\* skips whales, and collects active whales only).
NoAttraction(ps, i) ==
    ps[i].isWhale \/ \A j \in Slots : ~(ps[j].active /\ ps[j].isWhale)

\* Two velocities as close as the rounding of the fixed-point products
\* allows: one unit for each of the three products involved.
Near(u, v) == u - v <= 3 /\ v - u <= 3

\* C26: velocity damping is independent of tick granularity: when update(dt)
\* is split into update(a) followed by update(dt - a), an entity that
\* receives no attraction force and stays alive has, up to rounding, the
\* velocity the single update(dt) leaves. (Without attraction the two
\* updates of the pool are the two updates of the slot.)
C26_DampingIndependentOfTicks ==
    [][UpdateStep =>
        \A i \in Slots :
            (/\ particles[i].active
             /\ particles'[i].active
             /\ NoAttraction(particles, i))
            => \A a \in Splits(poolCall'.dt) :
                   LET two == UpdateParticle(UpdateParticle(particles[i], a),
                                             poolCall'.dt - a)
                   IN  two.active
                       => /\ Near(two.vx, particles'[i].vx)
                          /\ Near(two.vy, particles'[i].vy)
                          /\ Near(two.vz, particles'[i].vz)]_vars

\* After update(1000) with no whale in the pool, a new entity still moves
\* along x and y: its velocity is damped and not rounded to nothing (the
\* entity also lives through update(500), update(500)).
C26_Witness ==
    /\ poolCall.op = "update" /\ poolCall.dt = 1000
    /\ \A i \in Slots : ~(particles[i].active /\ particles[i].isWhale)
    /\ \E i \in Slots :
          /\ particles[i].active
          /\ particles[i].age = 1000
          /\ particles[i].vx >= 90
          /\ particles[i].vy <= -45
          /\ UpdateParticle(UpdateParticle(Spawned(EmptyParticle,
                 CHOOSE c \in SpawnConfigs : c.maxAge = particles[i].maxAge),
                 500), 500).active

\* The slots as the first loop of update(dt) leaves the slots ps.
AfterLoop(ps, dt) == [i \in Slots |-> UpdateParticle(ps[i], dt)]

\* The whale of slot w exerts attraction in the second pass of update(dt)
\* on the slots ps: it is one of the collected whales, and its pull changes
\* the velocity of an entity.
Exerts(ps, dt, w) ==
    /\ \E k \in DOMAIN CollectWhales(ps, dt, 0, <<>>) :
          CollectWhales(ps, dt, 0, <<>>)[k] = w
    /\ \E i \in Slots :
          LET p == AfterLoop(ps, dt)[i]
          IN  /\ p.active /\ ~p.isWhale
              /\ Pull(p, AfterLoop(ps, dt)[w], dt) # p

\* C27: every whale that exerts attraction in the second pass of an update
\* is still active after that update's age and early-death checks, and at
\* most maxSimultaneousWhales whales are used by an update.
C27_AttractingWhalesAreActive ==
    [][UpdateStep =>
        /\ Len(CollectWhales(particles, poolCall'.dt, 0, <<>>))
              <= maxSimultaneousWhales
        /\ \A w \in Slots :
              Exerts(particles, poolCall'.dt, w) => particles'[w].active]_vars

\* C28: a recycled slot never shows the trail of its previous occupant:
\* every trail sample writeTrailBuffers emits for an entity is a position
\* the entity has been at since its own spawn; trailFill is in [0, 8] and
\* trailHead in [0, 8), in every slot; at most Capacity * 8 samples are
\* written, read from places of the ring buffer.
C28_TrailIsOwn ==
    LET w == writeTrailBuffers(particles)
    IN  /\ \A i \in Slots :
              /\ particles[i].trailFill \in 0..TRAIL_LENGTH
              /\ particles[i].trailHead \in Ring
        /\ w.idx <= Capacity * TRAIL_LENGTH
        /\ \A k \in DOMAIN w.samples :
              /\ w.samples[k].bufIdx \in Ring
              /\ particles[w.samples[k].slot].active
              /\ w.samples[k].position \in particles[w.samples[k].slot].path

\* Slot 0 holds its second occupant, and the one trail sample written is
\* the second occupant's own: its spawn position.
C28_Witness ==
    /\ poolCall.op = "update"
    /\ particles[0].active
    /\ particles[0].hash = 2
    /\ particles[0].chainId = "polygon"
    /\ particles[0].trailFill = 1
    /\ writeTrailBuffers(particles).idx = 1
    /\ writeTrailBuffers(particles).samples[1].position = <<-20000, 5000, 1000>>

\* C30: trail samples are taken at the fixed interval of simulated time
\* whatever the tick size: under updates with dt of at most
\* trailSampleInterval, an active entity of age T has taken
\* floor(T / trailSampleInterval) trail samples.
C30_SamplesEveryInterval ==
    /\ poolCall.op = "update" => poolCall.dt <= trailSampleInterval
    /\ \A i \in Slots :
          particles[i].active
              => particles[i].samples = particles[i].age \div trailSampleInterval

\* C29: every spawned entity is deactivated in time: an entity is inactive
\* at the end of the first update in which age + dt >= maxAge, an entity
\* that stays active has aged by dt, and with d the smallest dt of the
\* updates an entity has been through, it is inactive at the end of update
\* number ceil(maxAge / d) at the latest.
C29_DeactivatedInTime ==
    [][UpdateStep =>
        \A i \in Slots :
            particles[i].active =>
                LET p == particles[i]
                    dt == poolCall'.dt
                    d == IF p.minDt = 0 THEN dt ELSE Min(p.minDt, dt)
                IN  /\ dt > 0
                    /\ p.age + dt >= p.maxAge => ~particles'[i].active
                    /\ p.updates + 1 >= CeilDiv(p.maxAge, d)
                          => ~particles'[i].active
                    /\ particles'[i].active
                          => /\ particles'[i].age = p.age + dt
                             /\ particles'[i].maxAge = p.maxAge
                             /\ particles'[i].updates = p.updates + 1]_vars

\* An entity with maxAge M that went through one update(2.5) and was
\* deactivated by the age check of the second, which is update number
\* ceil(M / 2.5).
C29_Witness ==
    /\ poolCall.op = "update" /\ poolCall.dt = 2500
    /\ \E i \in Slots :
          /\ ~particles[i].active
          /\ particles[i].age >= particles[i].maxAge
          /\ particles[i].updates = 1
          /\ particles[i].minDt = 2500
          /\ CeilDiv(particles[i].maxAge, 2500) = 2

\* C38: a newly spawned entity is never deactivated by the visibility
\* floors on its first update: for every dt with 0 < dt < maxAge, an entity
\* that is active with age 0 before update(dt) is active after it.
C38_SurvivesFirstUpdate ==
    [][UpdateStep =>
        \A i \in Slots :
            (/\ particles[i].active
             /\ particles[i].age = 0
             /\ 0 < poolCall'.dt
             /\ poolCall'.dt < particles[i].maxAge)
                => particles'[i].active]_vars

\* ------------------------------------------------------------------------
\* Properties of the frame
\* ------------------------------------------------------------------------
FrameStep == frame'.frames = frame.frames + 1

\* C19: a frame drains, spawns, updates and writes in that order: every
\* entity in the index map it leaves is active, went through the update of
\* this frame after its spawn (so it has aged by at least the frame time),
\* has age < maxAge, and has opacity, energy and size at or above the
\* floors; the buffers hold these values up to the dimming.
C19_WrittenAreLive ==
    [][FrameStep =>
        \A k \in DOMAIN frame'.indexMap :
            LET i == frame'.indexMap[k]
                p == particles'[i]
            IN  /\ p.active
                /\ frame'.updated[i]
                /\ p.age >= frame'.input.delta
                /\ p.age < p.maxAge
                /\ p.opacity >= minOpacity
                /\ p.energy >= minEnergy
                /\ p.size >= minSize
                /\ frame'.energies[k] = p.energy
                /\ frame'.sizes[k] <= p.size
                /\ frame'.opacities[k] <= p.opacity]_vars

\* A frame wrote an entity it had spawned itself, next to an older one, and
\* its update put out another.
C19_Witness ==
    /\ frame.input.delta > 0
    /\ frame.spawned > 0
    /\ \E k \in DOMAIN frame.indexMap :
          particles[frame.indexMap[k]].age = frame.input.delta
    /\ \E k \in DOMAIN frame.indexMap :
          particles[frame.indexMap[k]].age > frame.input.delta
    /\ \E i \in Slots : ~particles[i].active /\ particles[i].age > 0

\* C21: writeBuffers returns the number of active slots, which is at most
\* the capacity, and writes one record per active slot in increasing slot
\* order: the index map it leaves has the length of the returned count,
\* names active slots only, each once and in increasing order, and every
\* active slot is named; record k holds the energy of slot indexMap[k].
C21_IndexMapIsActiveSlots ==
    [][FrameStep =>
        /\ frame'.written = Cardinality(ActiveSlots(particles'))
        /\ frame'.written <= Capacity
        /\ Len(frame'.indexMap) = frame'.written
        /\ Len(frame'.sizes) = frame'.written
        /\ Len(frame'.opacities) = frame'.written
        /\ Len(frame'.energies) = frame'.written
        /\ \A k \in DOMAIN frame'.indexMap :
              /\ frame'.indexMap[k] \in Slots
              /\ particles'[frame'.indexMap[k]].active
              /\ frame'.energies[k] = particles'[frame'.indexMap[k]].energy
        /\ \A k, l \in DOMAIN frame'.indexMap :
              k < l => frame'.indexMap[k] < frame'.indexMap[l]
        /\ \A i \in ActiveSlots(particles') :
              \E k \in DOMAIN frame'.indexMap : frame'.indexMap[k] = i]_vars

\* A frame wrote two records and skipped an inactive slot below an active
\* one.
C21_Witness ==
    /\ frame.written = 2
    /\ frame.indexMap[1] > 0
    /\ ~particles[0].active

\* C23: the energy of every active entity is in [0, 1] in every state a
\* frame leaves (its spawn step and its update done), for whales and
\* non-whales alike.
C23_EnergyInUnitRange ==
    \A i \in Slots :
        particles[i].active =>
            (particles[i].energy >= 0 /\ particles[i].energy <= Scale)

\* Drained items of the last frame that passed its filters.
Passing == {k \in DOMAIN frame.drained : Passes(frame.drained[k], frame.input)}

\* C20 as stated: a frame drains and spawns at most MAX_PER_FRAME items,
\* and at least one of each when delta > 0 and the queue is not empty.
C20_DrainsAndSpawns ==
    [][FrameStep =>
        /\ Len(frame'.drained) <= MAX_PER_FRAME(frame.lowEnd)
        /\ frame'.spawned <= MAX_PER_FRAME(frame.lowEnd)
        /\ (frame'.input.delta > 0 /\ frame'.queueSize > 0) =>
              (Len(frame'.drained) >= 1 /\ frame'.spawned >= 1)]_vars

\* C20, amended: a frame drains at most MAX_PER_FRAME items (12, or 8 on
\* a low-end device), and at least one when delta > 0 and the queue is
\* not empty; it spawns the drained items whose chain and symbol pass the
\* filters, which may be none.
C20_DrainBounded ==
    [][FrameStep =>
        /\ MAX_PER_FRAME(frame.lowEnd) = (IF frame.lowEnd THEN 8 ELSE 12)
        /\ Len(frame'.drained) <= MAX_PER_FRAME(frame.lowEnd)
        /\ Len(frame'.drained) = Min(frame'.count, frame'.queueSize)
        /\ frame'.queueSize = size
        /\ (frame'.input.delta > 0 /\ frame'.queueSize > 0) =>
              Len(frame'.drained) >= 1
        /\ frame'.spawned = Cardinality(Passing')
        /\ frame'.spawned <= Len(frame'.drained)]_vars

\* A low-end device drained 8 of at least 13 queued items in a frame whose
\* filters let some of them pass and stopped others.
C20_Witness ==
    /\ frame.lowEnd
    /\ frame.queueSize >= 13
    /\ Len(frame.drained) = 8
    /\ frame.spawned > 0
    /\ frame.spawned < Len(frame.drained)

\* Transactions watched in the flood: the non-whale, and the whale that
\* takes the first serial number.
Watched == {0, 1}

\* C18 (its progress part): with frames of delta > 0 running, every
\* transaction in the queue leaves it after finitely many frames; in the
\* flood nothing is cleared and the trim removes nothing, so it can only
\* leave by being drained.
C18_EveryQueuedIsDrained ==
    \A h \in Watched :
        (frame.mounted /\ InQueue(FloodChain, h)) ~> ~InQueue(FloodChain, h)

====
